---- MODULE Spec2Model ----
(***************************************************************************)
(* Model of the npe-toolkit provider scopes (core/providers), the          *)
(* in-memory data cache (data/DataCache) and the data store facade         *)
(* (data/DataStoreImpl).                                                   *)
(*                                                                         *)
(* JavaScript values are modelled as follows.  A provided value, a         *)
(* callback and a scope are named by a string.  `undefined` is the string  *)
(* "undefined".  An object is a function from its own property names to    *)
(* their values, so that an absent property is a name outside its DOMAIN.  *)
(***************************************************************************)
EXTENDS Integers, Sequences, FiniteSets, TLC

VARIABLES
    scopes,        \* the scopes constructed by scope()
    providerMap,   \* scope -> key id -> provider registered there, or NoProvider
    listeners,     \* scope -> key id -> reference of the listener Map, or NoMap
    listenerMaps,  \* Map reference -> the Map: insertion-ordered <<listenerKey, fn>> entries
    unlisteners,   \* listenerKey -> the closure returned by listen(): its key, ls and scope
    idcount,       \* module-level counter that hands out listener keys
    unsubscribed,  \* the listener keys whose unsubscribe function has been called
    lastCall,      \* what the most recent call on a scope did: result and listener invocations
    cache,         \* in-memory cache: id -> cached copy, for the ids it holds
    cacheListeners,\* in-memory cache: id or "*" -> list of callbacks, for the keys it holds
    cacheUnlisteners, \* in-memory cache: the closures returned by listen(), and their calls
    callers,       \* the callers of the cache that are running
    inflight,      \* caller -> the cache call it awaits and where that call is suspended
    lastDone,      \* what the most recent step of the cache did: result and callbacks invoked
    cacheQueryLoaded, \* in-memory cache: the query fingerprints marked loaded
    queriesDone,   \* the filter lists of the cache queries that have completed
    db,            \* backend: entity type -> document id -> document
    caches,        \* entity type -> the content of the store's in-memory cache
    queryLoaded,   \* the <<entity type, fingerprint>> pairs the caches have marked loaded
    uuids,         \* how many ids uuidv4() has generated
    creating,      \* the facade create, update or remove that awaits the backend, or Idle
    lastStore,     \* the most recent completed call on a data store and its result
    lastCreate,    \* the most recent completed create: what was supplied and stamped
    storeListeners,\* entity type -> the listeners of the store's cache
    components,    \* React component -> what its latest render and its effect hold, or NotMounted
    timers,        \* React component -> how many of its setTimeout callbacks are pending
    reloads,       \* the ref `reloads` of the component that is the reload boundary, or NoRef
    provides,      \* how many times application code has provided a value to a scope
    heap,          \* the objects allocated by calls of the facade, by reference
    held,          \* entity type -> id -> reference of the copy the store's cache holds
    marked,        \* the <<entity type, fingerprint>> pairs of the queries marked loaded
    acts,          \* the activations of async functions of the calls made so far
    jobs,          \* the microtask queue: activations whose continuation is ready
    requests,      \* the activations that await an answer of the backend
    returned,      \* what the most recent completed facade call returned
    called         \* how many facade calls the event loop has been given

scopeVars == <<scopes, providerMap, listeners, listenerMaps, unlisteners, idcount,
              unsubscribed, lastCall>>
queryVars == <<cacheQueryLoaded, queriesDone>>
cacheVars == <<cache, cacheListeners, cacheUnlisteners, callers, inflight, lastDone, queryVars>>

storeVars == <<db, caches, queryLoaded, uuids, creating, lastStore, lastCreate,
              storeListeners>>

clientVars == <<components, timers, reloads, provides>>

loopVars == <<heap, held, marked, acts, jobs, requests, returned, called>>

vars == <<scopeVars, cacheVars, storeVars, clientVars, loopVars>>

(***************************************************************************)
(* Bounds of the model.                                                    *)
(***************************************************************************)
\* listen() calls made in one run (idcount never exceeds it)
MaxListens == 2
\* bound: the calls of one unsubscribe function of the cache
MaxUnlistens == 2
\* calls that provide a value to a scope from the component tree in one run
MaxProvides == 3

(***************************************************************************)
(* Providers.tsx: keys.                                                    *)
(***************************************************************************)
Undefined == "undefined"

\* property access obj[name] of JavaScript: undefined for an absent property
GetProp(obj, name) == IF name \in DOMAIN obj THEN obj[name] ELSE Undefined
\* whether obj[name] is set (every property set in this model is truthy)
HasProp(obj, name) == name \in DOMAIN obj

\* The props given to providerKeyFor at module load, one per key.  The symbol
\* made by Symbol(name) is unique per call: it is modelled by the key's index.
KeyProps ==
    <<[name |-> "theme", defaultValue |-> "basic-black"],
      [name |-> "user"]>>

\* export function providerKeyFor<T>(props): {id: Symbol(name), defaultValue}
providerKeyFor(symbol, props) ==
    [id |-> symbol, defaultValue |-> GetProp(props, "defaultValue")]

Keys == {providerKeyFor(i, KeyProps[i]) : i \in DOMAIN KeyProps}

\* Reload.tsx: export const ReloadKey, ReloadState
ReloadKey == providerKeyFor(Len(KeyProps) + 1, [name |-> "reload"])
ReloadState == providerKeyFor(Len(KeyProps) + 2, [name |-> "reload-state"])

KeyIds == {k.id : k \in Keys \cup {ReloadKey, ReloadState}}

\* the values that providers produce in this model
Values == {"light", "dark"}
\* the callbacks given to listen()
Fns == {"f", "g"}

(***************************************************************************)
(* ProviderImpl.tsx: scope().                                              *)
(***************************************************************************)
Scopes == {"app", "screen", "modal"}
NoScope == "none"
\* the parentScope argument each scope was constructed with: a chain
parentScope == [s \in Scopes |->
    CASE s = "app" -> NoScope
      [] s = "screen" -> "app"
      [] s = "modal" -> "screen"]

NoProvider == [none |-> TRUE]
NoMap == 0

\* type Provider<T> = () => T: a provider is the function returning `returns`
Provider(v) == [returns |-> v]
CallProvider(p) == p.returns

Returned(v) == [kind |-> "value", v |-> v]
Thrown(msg) == [kind |-> "throw", v |-> msg]

\* mutant of use: asks the parent scope before its own map
RECURSIVE useParentFirst(_, _, _)
useParentFirst(pm, s, key) ==
    LET provider == pm[s][key.id]
        up == IF parentScope[s] # NoScope
              THEN useParentFirst(pm, parentScope[s], key)
              ELSE Thrown("No provider for this key.")
    IN  IF up.kind = "value" THEN up
        ELSE IF provider # NoProvider THEN Returned(CallProvider(provider))
        ELSE up

\* use: <T,>(key: ProviderKey<T>): T, on the scope s whose maps are pm
RECURSIVE use(_, _, _)
use(pm, s, key) ==
    LET provider == pm[s][key.id]
    IN  IF provider # NoProvider
        THEN Returned(CallProvider(provider))
        ELSE IF parentScope[s] # NoScope
        THEN use(pm, parentScope[s], key)
        ELSE IF GetProp(key, "defaultProvider") # Undefined
        THEN Returned(CallProvider(GetProp(key, "defaultProvider")))
        ELSE Thrown("No provider for this key.")

\* The constructor's loop over `providers`.  A provider function marked by
\* provides() carries the property KeyForProvides, a value marked by
\* providesValue() carries KeyForProvidesValue; Map.set keeps the last one.
RECURSIVE scope(_)
scope(providers) ==
    IF providers = <<>> THEN [kid \in KeyIds |-> NoProvider]
    ELSE LET n == Len(providers)
             provider == providers[n]
             before == scope(SubSeq(providers, 1, n - 1))
         IN  IF HasProp(provider, "KeyForProvides")
             THEN [before EXCEPT ![provider.KeyForProvides] =
                                     Provider(provider.returns)]
             ELSE [before EXCEPT ![provider.KeyForProvidesValue] =
                                     Provider(provider.value)]

\* the provider lists the scopes of this model are constructed with
InitialProviders ==
    {<<>>,
     <<[KeyForProvidesValue |-> 1, value |-> "light"]>>,
     <<[KeyForProvides |-> 2, returns |-> "dark"]>>}

NoCall == [op |-> "none", scope |-> NoScope, key |-> 0, value |-> Undefined,
           result |-> Returned(Undefined), calls |-> <<>>]

\* the components of the React tree that call use(key)
Components == {"a", "b"}
NotMounted == [mounted |-> FALSE]
NoRef == [mounted |-> FALSE]

\* before the first render: nothing is mounted and no timer is pending
ClientInit ==
    /\ components = [c \in Components |-> NotMounted]
    /\ timers = [c \in Components |-> 0]
    /\ reloads = NoRef
    /\ provides = 0

\* an event loop that has been given no call of a data store
NoReturn == [fn |-> "none", type |-> "", id |-> "", edges |-> <<>>, value |-> <<>>,
             error |-> ""]
LoopInit ==
    /\ heap = <<>>
    /\ held = [type \in {"Post", "Comment", "Tag"} |-> <<>>]
    /\ marked = {}
    /\ acts = <<>>
    /\ jobs = <<>>
    /\ requests = {}
    /\ returned = NoReturn
    /\ called = 0

ScopeInit(constructed) ==
    /\ ClientInit
    /\ LoopInit
    /\ scopes = constructed
    /\ providerMap \in [Scopes -> {scope(ps) : ps \in InitialProviders}]
    /\ \A s \in Scopes \ constructed : providerMap[s] = scope(<<>>)
    /\ listeners = [s \in Scopes |-> [kid \in KeyIds |-> NoMap]]
    /\ listenerMaps = <<>>
    /\ unlisteners = <<>>
    /\ idcount = 0
    /\ unsubscribed = {}
    /\ lastCall = NoCall

\* provide: <T,>(key, provider): void
provide(s, key, v) ==
    /\ providerMap' = [providerMap EXCEPT ![s][key.id] = Provider(v)]
    /\ lastCall' = [NoCall EXCEPT !.op = "provide"]
    /\ UNCHANGED <<scopes, listeners, listenerMaps, unlisteners, idcount, unsubscribed,
                   cacheVars, storeVars>>

\* listeners.get(key) ?? new Map(): the entries of the key's Map, in insertion order
ListenersFor(s, key) ==
    IF listeners[s][key.id] = NoMap THEN <<>> ELSE listenerMaps[listeners[s][key.id]]

\* what one listener invocation fn(value) observes: the value it is given and
\* what use(key) on the scope returns while it runs
Invocation(entry, value, pm, s, key) ==
    [listenerKey |-> entry[1], fn |-> entry[2], value |-> value,
     seen |-> use(pm, s, key)]

\* provideValue: <T,>(key, value): void
provideValue(s, key, value) ==
    /\ providerMap' = [providerMap EXCEPT ![s][key.id] = Provider(value)]
    /\ LET ls == ListenersFor(s, key)
       IN  lastCall' = [NoCall EXCEPT !.op = "provideValue", !.scope = s,
                !.key = key.id, !.value = value,
                !.calls = [i \in DOMAIN ls |->
                              Invocation(ls[i], value, providerMap', s, key)]]
    /\ UNCHANGED <<scopes, listeners, listenerMaps, unlisteners, idcount, unsubscribed,
                   cacheVars, storeVars>>

\* a call of use(key) on scope s
Use(s, key) ==
    /\ lastCall' = [NoCall EXCEPT !.op = "use", !.scope = s, !.key = key.id,
                                  !.result = use(providerMap, s, key)]
    /\ UNCHANGED <<scopes, providerMap, listeners, listenerMaps, unlisteners, idcount,
                   unsubscribed, cacheVars, storeVars>>

\* listen: <T,>(key, fn): Unlisten
listen(s, key, fn) ==
    /\ idcount < MaxListens
    /\ LET fresh == listeners[s][key.id] = NoMap
           ref == IF fresh THEN Len(listenerMaps) + 1 ELSE listeners[s][key.id]
           maps == IF fresh THEN Append(listenerMaps, <<>>) ELSE listenerMaps
           listenerKey == idcount
       IN  /\ listeners' = [listeners EXCEPT ![s][key.id] = ref]
           /\ listenerMaps' = [maps EXCEPT ![ref] = Append(@, <<listenerKey, fn>>)]
           /\ unlisteners' = Append(unlisteners,
                  [scope |-> s, key |-> key.id, ls |-> ref, listenerKey |-> listenerKey])
    /\ idcount' = idcount + 1
    /\ lastCall' = [NoCall EXCEPT !.op = "listen"]
    /\ UNCHANGED <<scopes, providerMap, unsubscribed, cacheVars, storeVars>>

\* Map.delete(listenerKey) on the entries of one Map
MapDelete(entries, listenerKey) ==
    SelectSeq(entries, LAMBDA e : e[1] # listenerKey)

\* the function returned by listen(), called
unlisten(u) ==
    LET c == unlisteners[u]
        ls == MapDelete(listenerMaps[c.ls], c.listenerKey)
    IN  /\ listenerMaps' = [listenerMaps EXCEPT ![c.ls] = ls]
        /\ listeners' = [listeners EXCEPT ![c.scope][c.key] =
                            IF Len(ls) > 1 THEN c.ls ELSE NoMap]
        /\ unsubscribed' = unsubscribed \cup {c.listenerKey}
        /\ lastCall' = [NoCall EXCEPT !.op = "unlisten"]
        /\ UNCHANGED <<scopes, providerMap, unlisteners, idcount, cacheVars, storeVars>>

(***************************************************************************)
(* Client.tsx: <Scope>, useScope() and the client use(key).  A component   *)
(* is placed under its nearest <Scope>; the listener it registers is the   *)
(* closure updateValue of the render in which its effect ran.              *)
(***************************************************************************)
\* findScope(scope, name): the scope itself without a name, else the nearest
\* scope of that name (NoScope stands for the throw at the root)
RECURSIVE findScope(_, _)
findScope(s, name) ==
    IF name = Undefined \/ name = s THEN s
    ELSE IF parentScope[s] = NoScope THEN NoScope
    ELSE findScope(parentScope[s], name)

\* useScope(name?), in a component whose nearest <Scope> is `nearest`
useScope(nearest, name) == findScope(nearest, name)

\* React.useEffect(() => scope.listen(key, updateValue), [key, scope]): the
\* `value` that the registered updateValue closes over after a later render.
\* Neither key nor scope changes, so the effect does not run again.
effectListener(registered, rendered) == registered

\* function updateValue(newValue): whether it calls setTimeout
updateValue(component, newValue) == component.listening # newValue

\* the setTimeout calls made by the listener invocations `calls`, per component
Scheduled(calls) ==
    [c \in Components |->
        Cardinality({i \in DOMAIN calls :
            calls[i].fn = c /\ updateValue(components[c], calls[i].value)})]

\* the first render of component c, which calls use(key), and its effect
Mount(c, nearest, key) ==
    /\ ~components[c].mounted
    /\ LET s == useScope(nearest, Undefined)
           value == use(providerMap, s, key)
       IN  /\ value.kind = "value"
           /\ components' = [components EXCEPT ![c] =
                  [mounted |-> TRUE, scope |-> s, key |-> key, value |-> value.v,
                   listening |-> value.v]]
           /\ listen(s, key, c)
    /\ UNCHANGED <<timers, reloads, provides, loopVars>>

\* scope.provideValue(key, value), called by application code
ClientProvideValue(s, key, value) ==
    /\ provides < MaxProvides
    /\ provideValue(s, key, value)
    /\ timers' = [c \in Components |-> timers[c] + Scheduled(lastCall'.calls)[c]]
    /\ provides' = provides + 1
    /\ UNCHANGED <<components, reloads, loopVars>>

\* a render of mounted component c: const value = scope.use(key)
Rendered(pm, component) ==
    LET value == use(pm, component.scope, component.key)
    IN  [component EXCEPT !.value = value.v,
                          !.listening = effectListener(@, value.v)]

\* a pending setTimeout callback of component c runs: setRefresh(val => val + 1),
\* and React renders the component again
Refresh(c) ==
    /\ timers[c] > 0
    /\ timers' = [timers EXCEPT ![c] = @ - 1]
    /\ components' = [components EXCEPT ![c] = Rendered(providerMap, @)]
    /\ UNCHANGED <<scopeVars, cacheVars, storeVars, reloads, provides, loopVars>>

(***************************************************************************)
(* Reload.tsx: useReloadBoundary(), reload(); Layout.tsx: ApplyLayout.     *)
(***************************************************************************)
\* mutant of useRef: every render starts from the initial value
useRefEveryRender(ref, initial) == initial

\* React.useRef(initial): the ref object of the first render is kept
useRef(ref, initial) == IF ref.mounted THEN ref.current ELSE initial

\* the listener invocations of scope.provideValue(key, value) once the map is pm
Notified(pm, s, key, value) ==
    LET ls == ListenersFor(s, key)
    IN  [i \in DOMAIN ls |-> Invocation(ls[i], value, pm, s, key)]

\* whether scope s lies strictly below scope ancestor
RECURSIVE Below(_, _)
Below(s, ancestor) ==
    /\ parentScope[s] # NoScope
    /\ (parentScope[s] = ancestor \/ Below(parentScope[s], ancestor))

\* A render of ApplyLayout under `nearest`: useReloadBoundary() provides the
\* reload state and the reload function on useScope(), and the returned
\* <Scope name="screen"> is rendered with everything mounted inside it.
ApplyLayout(nearest) ==
    /\ provides < MaxProvides
    /\ LET s == useScope(nearest, Undefined)
           current == useRef(reloads, 0)
           stated == [providerMap EXCEPT ![s][ReloadState.id] = Provider(current)]
           keyed == [stated EXCEPT ![s][ReloadKey.id] = Provider("reload")]
           calls == Notified(stated, s, ReloadState, current)
                    \o Notified(keyed, s, ReloadKey, "reload")
       IN  /\ reloads' = [mounted |-> TRUE, scope |-> s, current |-> current]
           /\ providerMap' = keyed
           /\ scopes' = scopes \cup {"screen"}
           /\ lastCall' = [NoCall EXCEPT !.op = "useReloadBoundary", !.scope = s,
                              !.key = ReloadState.id, !.value = current,
                              !.calls = calls]
           /\ timers' = [c \in Components |-> timers[c] + Scheduled(calls)[c]]
           /\ components' = [c \in Components |->
                  IF components[c].mounted /\ Below(components[c].scope, s)
                  THEN Rendered(keyed, components[c])
                  ELSE components[c]]
    /\ provides' = provides + 1
    /\ UNCHANGED <<listeners, listenerMaps, unlisteners, idcount, unsubscribed,
                   cacheVars, storeVars, loopVars>>

\* reload(): reloads.current += 1; scope.provideValue(ReloadState, reloads.current)
reload ==
    /\ reloads.mounted
    /\ provides < MaxProvides
    /\ reloads' = [reloads EXCEPT !.current = @ + 1]
    /\ provideValue(reloads.scope, ReloadState, reloads'.current)
    /\ timers' = [c \in Components |-> timers[c] + Scheduled(lastCall'.calls)[c]]
    /\ provides' = provides + 1
    /\ UNCHANGED <<components, loopVars>>

(***************************************************************************)
(* JavaScript values held in entities: a primitive carries its type, null  *)
(* is an object to typeof, an absent property reads as undefined.          *)
(***************************************************************************)
Str(s) == [t |-> "string", v |-> s]
Num(n) == [t |-> "number", v |-> n]
Null == [t |-> "null"]
JsUndefined == [t |-> "undefined"]

typeof(x) == IF x.t \in {"null", "array"} THEN "object" ELSE x.t
\* obj[name]
Field(obj, name) == IF name \in DOMAIN obj THEN obj[name] ELSE JsUndefined
\* {...obj}
ShallowCopy(obj) == [k \in DOMAIN obj |-> obj[k]]

(***************************************************************************)
(* DataCache.tsx: inMemoryCache().                                         *)
(***************************************************************************)
CacheIds == {"u1", "u2"}
Wildcard == "*"
\* the callers of the cache: each awaits the call it made before it makes another
Callers == {"c1", "c2"}

\* the entities of this model: {id, name} with an optional updatedAt
Entity(id, name, updatedAt) ==
    [k \in {"id", "name"} \cup (IF updatedAt = 0 THEN {} ELSE {"updatedAt"}) |->
        CASE k = "id" -> Str(id)
          [] k = "name" -> Str(name)
          [] k = "updatedAt" -> Num(updatedAt)]
EntitiesOf(id) ==
    {Entity(id, name, updatedAt) : name \in {"Ann", "Bob"}, updatedAt \in {0, 1, 2}}

AllEntities == UNION {EntitiesOf(i) : i \in CacheIds}

\* listeners[key] ?? [] reads an absent key as the empty list
ListenersOf(ls, key) == IF key \in DOMAIN ls THEN ls[key] ELSE <<>>

\* listen(ids, callback), on the listener record ls: push on every key of ids
RECURSIVE cacheListen(_, _, _)
cacheListen(ls, ids, callback) ==
    IF ids = <<>> THEN ls
    ELSE LET key == Head(ids)
             pushed == [k \in DOMAIN ls \cup {key} |->
                           IF k = key THEN Append(ListenersOf(ls, key), callback)
                           ELSE ls[k]]
         IN  cacheListen(pushed, Tail(ids), callback)

\* trigger(key, op): the callbacks invoked, in order, each with (key, op)
trigger(ls, key, op) ==
    LET matches == ListenersOf(ls, key)
        wildcardMatches == ListenersOf(ls, Wildcard)
        callbacks == matches \o wildcardMatches
    IN  [i \in DOMAIN callbacks |-> [callback |-> callbacks[i], id |-> key, op |-> op]]

\* areValuesEqual(lhs, rhs) of DataCache.tsx, for two objects
areValuesEqual(lhs, rhs) ==
    LET lhsKeys == {key \in DOMAIN lhs : typeof(lhs[key]) # "object"}
        rhsKeys == {key \in DOMAIN rhs : typeof(Field(lhs, key)) # "object"}
    IN  IF Cardinality(lhsKeys) # Cardinality(rhsKeys) THEN FALSE
        ELSE \A key \in lhsKeys :
                ~(key # "updatedAt" /\ lhs[key] # Field(rhs, key))

\* matchers, and toPredicate(query)
matchers(op, a, b) ==
    IF op = "==" THEN a.t = "string" /\ a.v = b
    ELSE IF op = "!=" THEN ~(a.t = "string" /\ a.v = b)
    ELSE FALSE
toPredicate(where, item) ==
    \A i \in DOMAIN where :
        matchers(where[i].op, Field(item, where[i].field), where[i].value)

\* mutant of keyFor: the fingerprint is taken of the whole query
keyForQuery(query) == query

\* keyFor(query): JSON.stringify({where: query.where}), the filter list only
keyFor(query) == [where |-> query.where]

NotCached == [t |-> "null"]
\* the synchronous part of get(id, fn): const existing = cache[id]
Existing(c, id) == IF id \in DOMAIN c THEN c[id] ELSE NotCached

\* has(id): cache[id] != null
has(c, id) == id \in DOMAIN c

\* mutant of getStores: get stores only a null fallback result
getStoresNull(value) == value = Null

\* get, after `await fn()`: if (value != null) the value is put under 'load'
getStores(value) == value # Null

\* mutant of shouldTrigger: an 'add' of an id that is cached is not announced
shouldTriggerNewOnly(inCache, op, value) ==
    IF inCache # NotCached THEN op = "update" /\ ~areValuesEqual(inCache, value)
    ELSE op = "add"

\* mutant of shouldTrigger: a 'load' over a different cached value is announced
shouldTriggerLoad(inCache, op, value) ==
    IF inCache # NotCached /\ op \in {"update", "load"}
    THEN ~areValuesEqual(inCache, value)
    ELSE op = "add"

\* put's decision, from the copy `inCache` read when put was called
shouldTrigger(inCache, op, value) ==
    IF inCache # NotCached /\ op = "update" THEN ~areValuesEqual(inCache, value)
    ELSE op = "add"

\* mutant of Store: an id that is cached keeps the copy it has
StoreFirst(c, id, value) ==
    IF id \in DOMAIN c THEN c
    ELSE [k \in DOMAIN c \cup {id} |-> IF k = id THEN ShallowCopy(value) ELSE c[k]]

\* cache[id] = copy
Store(c, id, value) ==
    [k \in DOMAIN c \cup {id} |-> IF k = id THEN ShallowCopy(value) ELSE c[k]]
\* delete cache[id]
Delete(c, id) == [k \in DOMAIN c \ {id} |-> c[k]]

Idle == [pc |-> "idle"]
NoDone == [kind |-> "none", id |-> "", op |-> "", fellBack |-> FALSE,
           result |-> JsUndefined, inCache |-> NotCached, fired |-> <<>>,
           after |-> <<>>, query |-> <<>>, seen |-> FALSE, puts |-> <<>>,
           fnCalls |-> 0, error |-> "", closure |-> 0, before |-> <<>>]
\* what a get call remembers of the step before it
Summary(d) == <<d.kind, d.id, d.fellBack, d.result>>

\* put is suspended in `await get(id, async () => null)`: a microtask
PutPending == {c \in callers : inflight[c].pc = "put"}

\* get(id, fn), up to its first await
CacheGetCall(caller, id) ==
    /\ inflight[caller] = Idle
    /\ IF Existing(cache, id) # NotCached
       THEN /\ lastDone' = [NoDone EXCEPT !.kind = "get", !.id = id,
                               !.result = ShallowCopy(Existing(cache, id)),
                               !.after = Summary(lastDone)]
            /\ UNCHANGED inflight
       ELSE \* const value = await fn()
            /\ inflight' = [inflight EXCEPT ![caller] =
                               [pc |-> "fn", kind |-> "get", id |-> id]]
            /\ lastDone' = [NoDone EXCEPT !.kind = "fallback", !.id = id,
                               !.after = Summary(lastDone)]
    /\ UNCHANGED <<cache, cacheListeners, cacheUnlisteners, callers, queryVars, scopeVars, storeVars, clientVars, loopVars>>

\* put(id, op, value), up to its await: inCache is read when put is called
PutStart(kind, id, op, value) ==
    [pc |-> "put", kind |-> kind, id |-> id, op |-> op, value |-> value,
     inCache |-> Existing(cache, id)]

\* the fallback of a get resolves: null is returned, anything else is put
FallbackResolves(caller, value) ==
    /\ inflight[caller].pc = "fn"
    /\ PutPending = {}
    /\ value \in EntitiesOf(inflight[caller].id) \cup {Null}
    /\ IF getStores(value)
       THEN /\ inflight' = [inflight EXCEPT ![caller] =
                               PutStart("get", inflight[caller].id, "load", value)]
            /\ lastDone' = NoDone
       ELSE /\ inflight' = [inflight EXCEPT ![caller] = Idle]
            /\ lastDone' = [NoDone EXCEPT !.kind = "get", !.id = inflight[caller].id,
                               !.fellBack = TRUE, !.result = value]
    /\ UNCHANGED <<cache, cacheListeners, cacheUnlisteners, callers, queryVars, scopeVars, storeVars, clientVars, loopVars>>

\* a call of put(id, op, value)
CachePutCall(caller, id, op, value) ==
    /\ inflight[caller] = Idle
    /\ inflight' = [inflight EXCEPT ![caller] = PutStart("put", id, op, value)]
    /\ lastDone' = NoDone
    /\ UNCHANGED <<cache, cacheListeners, cacheUnlisteners, callers, queryVars, scopeVars, storeVars, clientVars, loopVars>>

\* put after its await: store the copy, trigger; a get then returns the value
CachePutResumes(caller) ==
    LET call == inflight[caller]
        fire == shouldTrigger(call.inCache, call.op, call.value)
    IN  /\ call.pc = "put"
        /\ cache' = Store(cache, call.id, call.value)
        /\ inflight' = [inflight EXCEPT ![caller] = Idle]
        /\ lastDone' = [NoDone EXCEPT !.kind = call.kind, !.id = call.id,
                           !.op = call.op, !.fellBack = (call.kind = "get"),
                           !.result = call.value, !.inCache = call.inCache,
                           !.fired = IF fire THEN trigger(cacheListeners, call.id, call.op)
                                     ELSE <<>>]
        /\ UNCHANGED <<cacheListeners, cacheUnlisteners, callers, queryVars, scopeVars, storeVars, clientVars, loopVars>>

\* mutant of existing: remove takes every id for cached
existingAlways(c, id) == TRUE

\* remove: const existing = cache[id] != null
existing(c, id) == id \in DOMAIN c

\* remove(id)
CacheRemove(caller, id) ==
    /\ inflight[caller] = Idle
    /\ cache' = Delete(cache, id)
    /\ lastDone' = [NoDone EXCEPT !.kind = "remove", !.id = id,
                       !.fired = IF existing(cache, id)
                                 THEN trigger(cacheListeners, id, "remove") ELSE <<>>]
    /\ UNCHANGED <<cacheListeners, cacheUnlisteners, callers, inflight, queryVars, scopeVars, storeVars, clientVars, loopVars>>

\* invalidate(id)
CacheInvalidate(caller, id) ==
    /\ inflight[caller] = Idle
    /\ cache' = Delete(cache, id)
    /\ lastDone' = [NoDone EXCEPT !.kind = "invalidate", !.id = id]
    /\ UNCHANGED <<cacheListeners, cacheUnlisteners, callers, inflight, queryVars, scopeVars, storeVars, clientVars, loopVars>>

\* a call of has(id)
CacheHas(caller, id) ==
    /\ inflight[caller] = Idle
    /\ lastDone' = [NoDone EXCEPT !.kind = "has", !.id = id,
                       !.result = IF has(cache, id) THEN Str("true") ELSE Str("false")]
    /\ UNCHANGED <<cache, cacheListeners, cacheUnlisteners, callers, inflight, queryVars, scopeVars, storeVars, clientVars, loopVars>>

\* the orders in which a cache can list the entries it holds
ScanOrders(ids) ==
    {s \in [1..Cardinality(ids) -> ids] : \A i, j \in DOMAIN s : s[i] = s[j] => i = j}

\* the queries passed to query(): a filter list, an ordering, a limit (0: none)
Wheres == {<<>>, <<[field |-> "name", op |-> "==", value |-> "Ann"]>>}
Queries ==
    {[where |-> w, order |-> <<>>, limit |-> 0] : w \in Wheres} \cup
    {[where |-> w, order |-> <<[field |-> "name", dir |-> "asc"]>>, limit |-> 1] :
        w \in Wheres}
\* what the fallback of a query returns
QueryResults ==
    {<<>>, <<Entity("u1", "Ann", 0)>>, <<Entity("u2", "Bob", 1), Entity("u1", "Ann", 0)>>}

\* put is suspended in `await get(...)` inside the loop of query
QueryPutPending == {c \in callers : inflight[c].pc = "queryPut"}

\* Object.values(cache).filter(matcher).map(copy), the cache listed in `scan` order
cacheScan(c, scan, where) ==
    LET ids == SelectSeq(scan, LAMBDA id : toPredicate(where, c[id]))
    IN  [i \in DOMAIN ids |-> ShallowCopy(c[ids[i]])]

\* query(query, fn), up to its first await
CacheQueryCall(caller, q, scan) ==
    /\ inflight[caller] = Idle
    /\ LET seen == \E d \in queriesDone : d.where = q.where
       IN  IF keyFor(q) \in cacheQueryLoaded
           THEN /\ lastDone' = [NoDone EXCEPT !.kind = "query", !.query = q,
                                   !.seen = seen,
                                   !.result = cacheScan(cache, scan, q.where)]
                /\ UNCHANGED inflight
           ELSE \* const results = await fn()
                /\ inflight' = [inflight EXCEPT ![caller] =
                                   [pc |-> "queryFn", kind |-> "query", query |-> q,
                                    seen |-> seen, fnCalls |-> 1]]
                /\ lastDone' = NoDone
    /\ UNCHANGED <<cache, cacheListeners, cacheUnlisteners, callers, queryVars, scopeVars, storeVars, clientVars, loopVars>>

\* mutant of loadedAfter: the fingerprint is marked however the fallback ended
loadedAlways(loaded, key, threw) == loaded \cup {key}

\* query: `queryLoaded[key] = true` follows `await fn()` and the loop of puts,
\* so it is reached only if the fallback did not throw
loadedAfter(loaded, key, threw) == IF threw THEN loaded ELSE loaded \cup {key}

\* query returns: queryLoaded[key] = true; return results
QueryReturns(caller, call, results, puts) ==
    /\ inflight' = [inflight EXCEPT ![caller] = Idle]
    /\ cacheQueryLoaded' = loadedAfter(cacheQueryLoaded, keyFor(call.query), FALSE)
    /\ queriesDone' = queriesDone \cup {call.query}
    /\ lastDone' = [NoDone EXCEPT !.kind = "query", !.query = call.query,
                       !.seen = call.seen, !.fellBack = TRUE, !.result = results,
                       !.puts = puts, !.fnCalls = call.fnCalls]

\* the fallback of a query resolves: the loop puts the first item, if any
QueryFallbackResolves(caller, results) ==
    /\ inflight[caller].pc = "queryFn"
    /\ PutPending = {} /\ QueryPutPending = {}
    /\ IF results = <<>>
       THEN QueryReturns(caller, inflight[caller], results, <<>>)
       ELSE /\ inflight' = [inflight EXCEPT ![caller] =
                               [pc |-> "queryPut", kind |-> "query",
                                query |-> @.query, seen |-> @.seen,
                                fnCalls |-> @.fnCalls, results |-> results,
                                i |-> 1, puts |-> <<>>,
                                inCache |-> Existing(cache, results[1].id.v)]]
            /\ lastDone' = NoDone
            /\ UNCHANGED queryVars
    /\ UNCHANGED <<cache, cacheListeners, cacheUnlisteners, callers, scopeVars, storeVars, clientVars, loopVars>>

\* `await put(id, 'load', item)` of the loop resumes: the item is stored and
\* the next item is put, or the query returns
QueryPutResumes(caller) ==
    LET call == inflight[caller]
        item == call.results[call.i]
        id == item.id.v
        puts == Append(call.puts,
                       [id |-> id, op |-> "load", value |-> item,
                        fired |-> IF shouldTrigger(call.inCache, "load", item)
                                  THEN trigger(cacheListeners, id, "load") ELSE <<>>])
    IN  /\ call.pc = "queryPut"
        /\ cache' = Store(cache, id, item)
        /\ IF call.i < Len(call.results)
           THEN /\ inflight' = [inflight EXCEPT ![caller] =
                                   [call EXCEPT !.i = @ + 1, !.puts = puts,
                                                !.inCache = Existing(cache', call.results[call.i + 1].id.v)]]
                /\ lastDone' = NoDone
                /\ UNCHANGED queryVars
           ELSE QueryReturns(caller, call, call.results, puts)
        /\ UNCHANGED <<cacheListeners, cacheUnlisteners, callers, scopeVars, storeVars, clientVars, loopVars>>

\* the error a fallback throws
FnError == "fallback failed"

\* `await fn()` of get or of query rejects: the call rejects with fn's error
FallbackThrows(caller) ==
    LET call == inflight[caller]
    IN  /\ call.pc \in {"fn", "queryFn"}
        /\ PutPending = {} /\ QueryPutPending = {}
        /\ inflight' = [inflight EXCEPT ![caller] = Idle]
        /\ cacheQueryLoaded' = IF call.pc = "queryFn"
                               THEN loadedAfter(cacheQueryLoaded, keyFor(call.query), TRUE)
                               ELSE cacheQueryLoaded
        /\ lastDone' = IF call.pc = "fn"
                       THEN [NoDone EXCEPT !.kind = "get", !.id = call.id,
                                           !.fellBack = TRUE, !.error = FnError]
                       ELSE [NoDone EXCEPT !.kind = "query", !.query = call.query,
                                           !.seen = call.seen, !.fellBack = TRUE,
                                           !.fnCalls = call.fnCalls, !.error = FnError]
        /\ UNCHANGED <<cache, cacheListeners, cacheUnlisteners, callers, queriesDone, scopeVars, storeVars, clientVars, loopVars>>

\* mutant of the unsubscribe function: a list that became empty stays
unsubscribeKeyKeeps(ls, key, callback) ==
    [ls EXCEPT ![key] = SelectSeq(@, LAMBDA cb : cb # callback)]

\* the unsubscribe function for one key that `listeners` holds:
\* listeners[key] = listeners[key].filter(cb => cb != callback), and
\* delete listeners[key] when nothing is left
unsubscribeKey(ls, key, callback) ==
    LET filtered == SelectSeq(ls[key], LAMBDA cb : cb # callback)
    IN  IF Len(filtered) = 0 THEN Delete(ls, key)
        ELSE [ls EXCEPT ![key] = filtered]

\* the function returned by listen(ids, callback), called on the listener
\* record ls: listeners[key].filter of an absent key throws a TypeError and
\* ends the loop
RECURSIVE cacheUnlisten(_, _, _)
cacheUnlisten(ls, ids, callback) ==
    IF ids = <<>> THEN [listeners |-> ls, error |-> ""]
    ELSE IF Head(ids) \notin DOMAIN ls
    THEN [listeners |-> ls, error |-> "TypeError"]
    ELSE cacheUnlisten(unsubscribeKey(ls, Head(ids), callback), Tail(ids), callback)

\* listen(ids, callback): a string is listed as [ids]
CacheListen(ids, callback) ==
    /\ Len(cacheUnlisteners) < MaxListens
    /\ cacheListeners' = cacheListen(cacheListeners, ids, callback)
    /\ cacheUnlisteners' = Append(cacheUnlisteners,
                                  [ids |-> ids, callback |-> callback, calls |-> 0])
    /\ lastDone' = [NoDone EXCEPT !.kind = "listen"]
    /\ UNCHANGED <<cache, callers, inflight, queryVars, scopeVars, storeVars,
                   clientVars, loopVars>>

\* the u-th function returned by listen(), called
CacheUnlisten(u) ==
    LET closure == cacheUnlisteners[u]
        done == cacheUnlisten(cacheListeners, closure.ids, closure.callback)
    IN  /\ closure.calls < MaxUnlistens
        /\ cacheListeners' = done.listeners
        /\ cacheUnlisteners' = [cacheUnlisteners EXCEPT ![u].calls = @ + 1]
        /\ lastDone' = [NoDone EXCEPT !.kind = "unlisten", !.closure = u,
                                      !.error = done.error,
                                      !.before = cacheListeners]
        /\ UNCHANGED <<cache, callers, inflight, queryVars, scopeVars, storeVars,
                       clientVars, loopVars>>

\* the listen calls made on the cache before the runs of this model start
ListenerSetups ==
    {<<>>,
     <<[ids |-> <<"u1">>, callback |-> "f"],
       [ids |-> <<Wildcard>>, callback |-> "g"]>>,
     <<[ids |-> <<"u1", "u2">>, callback |-> "f"],
       [ids |-> <<Wildcard, "u1">>, callback |-> "g"],
       [ids |-> <<Wildcard>>, callback |-> "h"]>>}

RECURSIVE ListenAll(_)
ListenAll(calls) ==
    IF calls = <<>> THEN <<>>
    ELSE LET n == Len(calls)
         IN  cacheListen(ListenAll(SubSeq(calls, 1, n - 1)), calls[n].ids,
                         calls[n].callback)

CacheInit(running) ==
    /\ callers = running
    /\ cache = <<>>
    /\ cacheListeners \in {ListenAll(calls) : calls \in ListenerSetups}
    /\ (running = {} => cacheListeners = <<>>)
    /\ cacheUnlisteners = <<>>
    /\ inflight = [c \in Callers |-> Idle]
    /\ lastDone = NoDone
    /\ cacheQueryLoaded = {}
    /\ queriesDone = {}

CacheNext ==
    \/ \E c \in callers, id \in CacheIds : CacheGetCall(c, id)
    \/ \E c \in callers, v \in AllEntities \cup {Null} : FallbackResolves(c, v)
    \/ \E c \in callers, id \in CacheIds, op \in {"add", "update", "load"} :
          \E v \in EntitiesOf(id) : CachePutCall(c, id, op, v)
    \/ \E c \in callers : CachePutResumes(c)
    \/ \E c \in callers, id \in CacheIds : CacheRemove(c, id)
    \/ \E c \in callers, id \in CacheIds : CacheInvalidate(c, id)
    \/ \E c \in callers, id \in CacheIds : CacheHas(c, id)

(***************************************************************************)
(* DataStoreImpl.tsx over FirestoreDatastore.tsx: one data store per       *)
(* entity type, made of the document backend and an in-memory cache.       *)
(***************************************************************************)
\* bound of the store runs: the ids generated by uuidv4()
MaxUuid == 1

\* a loaded edge, and a list
Obj(fields) == [t |-> "object", v |-> fields]
Arr(items) == [t |-> "array", v |-> items]
\* value == null
Nullish(x) == x.t \in {"null", "undefined"}

StoreTypes == {"Post", "Comment", "Tag"}

\* the declared type of a schema field
Scalar == [kind |-> "scalar"]
Ref(modelClass) == [kind |-> "ref", model |-> modelClass]
InverseRef(modelClass) == [kind |-> "inverse", model |-> modelClass]
ArrayOf(elementType) == [kind |-> "array", elem |-> elementType]
isArrayType(type) == type.kind = "array"
isModelRefType(type) == type.kind = "ref"
isInverseModelRefType(type) == type.kind = "inverse"
getElementType(type) == type.elem
getModelClass(type) == type.model
SchemaField(key, type) == [key |-> key, type |-> type]
BaseFields ==
    <<SchemaField("id", Scalar), SchemaField("createdAt", Scalar),
      SchemaField("updatedAt", Scalar)>>

\* ModelUtil.getSchema: a post has a parent post, a top comment, the comments
\* that reference it and the latest of them; a comment has its post and the
\* comment it replies to
PostSchema ==
    BaseFields \o
    <<SchemaField("title", Scalar), SchemaField("parent", Ref("Post")),
      SchemaField("top", Ref("Comment")),
      SchemaField("comments", ArrayOf(InverseRef("Comment"))),
      SchemaField("latest", InverseRef("Comment"))>>
CommentSchema ==
    BaseFields \o
    <<SchemaField("text", Scalar), SchemaField("post", Ref("Post")),
      SchemaField("replyTo", Ref("Comment"))>>
\* a model whose inverse field names Post, which has no reference to Tag
TagSchema ==
    BaseFields \o
    <<SchemaField("label", Scalar), SchemaField("cover", Ref("Post")),
      SchemaField("posts", ArrayOf(InverseRef("Post")))>>
getSchema(entityType) ==
    IF entityType = "Post" THEN PostSchema
    ELSE IF entityType = "Comment" THEN CommentSchema ELSE TagSchema
SchemaKeys(schema) == {schema[i].key : i \in DOMAIN schema}
SchemaType(schema, key) == schema[CHOOSE i \in DOMAIN schema : schema[i].key = key].type

\* ids, in the order of the backend's documents
GeneratedId(modelName, uuid) == modelName \o ":" \o ToString(uuid)
IdsInOrder ==
    [i \in 1..MaxUuid |-> GeneratedId("Comment", i)] \o
    [i \in 1..MaxUuid |-> GeneratedId("Post", i)] \o <<"c1", "c2", "p1", "p2", "t1">>
IdsOf(entityType) ==
    IF entityType = "Post"
    THEN {"p1", "p2"} \cup {GeneratedId("Post", i) : i \in 1..MaxUuid}
    ELSE {"c1", "c2"} \cup {GeneratedId("Comment", i) : i \in 1..MaxUuid}

\* mutant of commonCreateLogic: createdAt is stamped also when it was supplied
commonCreateLogicStamps(fields, modelName, uuid, now) ==
    [k \in DOMAIN fields \cup {"id", "createdAt", "updatedAt"} |->
        IF k = "id"
        THEN IF Nullish(Field(fields, "id"))
             THEN Str(GeneratedId(modelName, uuid)) ELSE fields.id
        ELSE IF k = "createdAt" THEN Num(now)
        ELSE IF k = "updatedAt" /\ Nullish(Field(fields, k)) THEN Num(now)
        ELSE fields[k]]

\* commonCreateLogic: out = {...fields}; id, createdAt, updatedAt ?? generated
commonCreateLogic(fields, modelName, uuid, now) ==
    [k \in DOMAIN fields \cup {"id", "createdAt", "updatedAt"} |->
        IF k = "id"
        THEN IF Nullish(Field(fields, "id"))
             THEN Str(GeneratedId(modelName, uuid)) ELSE fields.id
        ELSE IF k \in {"createdAt", "updatedAt"} /\ Nullish(Field(fields, k))
        THEN Num(now)
        ELSE fields[k]]

\* toFirestoreFields: the document written for the fields of a create or update
FirestoreDelete == [t |-> "FieldValue", v |-> "delete"]
toFirestoreFields(fields, schema, isCreate) ==
    LET written == {key \in SchemaKeys(schema) \cap DOMAIN fields :
                       /\ key # "id"
                       /\ Nullish(fields[key]) => ~isCreate
                       /\ (/\ ~Nullish(fields[key])
                           /\ isModelRefType(SchemaType(schema, key))) =>
                              (fields[key].t # "object" \/
                               Field(fields[key].v, "id") # Null)}
    IN  [key \in written |->
            IF Nullish(fields[key]) THEN FirestoreDelete
            ELSE IF isModelRefType(SchemaType(schema, key))
            THEN IF fields[key].t = "object" THEN Field(fields[key].v, "id")
                 ELSE JsUndefined
            ELSE fields[key]]

\* toModel: the entity read from a document
toModel(id, doc, schema) ==
    [key \in {"id"} \cup ((SchemaKeys(schema) \cap DOMAIN doc) \ {"id"}) |->
        IF key = "id" THEN Str(id) ELSE doc[key]]

\* firestoreBackend.get
dbGet(docs, entityType, id) ==
    IF id \in DOMAIN docs[entityType]
    THEN toModel(id, docs[entityType][id], getSchema(entityType))
    ELSE Null

\* firestoreQuery with where clauses, in document order
dbMatches(doc, where) ==
    \A i \in DOMAIN where :
        where[i].op = "==" /\ Field(doc, where[i].field) = Str(where[i].value)
firestoreQuery(docs, entityType, q) ==
    LET matching == SelectSeq(IdsInOrder, LAMBDA id :
                        /\ id \in DOMAIN docs[entityType]
                        /\ dbMatches(docs[entityType][id], q.where))
    IN  IF q.limit > 0 /\ q.limit < Len(matching)
        THEN SubSeq(matching, 1, q.limit) ELSE matching
\* firestoreBackend.query
dbQuery(docs, entityType, q) ==
    LET ids == firestoreQuery(docs, entityType, q)
    IN  [i \in DOMAIN ids |->
            toModel(ids[i], docs[entityType][ids[i]], getSchema(entityType))]

\* an edge selector: a bare model class, or [source, target, depth]
Bare(modelClass) == [isArray |-> FALSE, source |-> "", target |-> modelClass, depth |-> 0]
Triple(source, target, depth) ==
    [isArray |-> TRUE, source |-> source, target |-> target, depth |-> depth]

\* the options of get and of query
GetOpts(edges, cacheOpt) == [edges |-> edges, cache |-> cacheOpt]
QueryOpts(where, limit, edges) == [where |-> where, limit |-> limit, edges |-> edges]

\* mutant of deepCopyEdges: a new list of the caller's own triples
deepCopyEdgesShallow(edges) == [list |-> edges, copied |-> {}]

\* deepCopyEdges: a new list of the same selectors; `copied` are the positions
\* of the triples, which are new arrays that the caller's list does not hold
deepCopyEdges(edges) ==
    [list |-> [i \in DOMAIN edges |-> edges[i]],
     copied |-> {i \in DOMAIN edges : edges[i].isArray}]

\* the caller's list after findEdge has written to the list made of it: a
\* write to a triple shows in every list that holds the triple
Aliased(edges, copy, written) ==
    [i \in DOMAIN edges |-> IF i \in copy.copied THEN edges[i] ELSE written[i]]

\* mutant of findEdge: a triple whose depth has reached 0 still matches
RECURSIVE findEdgeAtZero(_, _, _, _)
findEdgeAtZero(entityType, edgeType, edges, i) ==
    IF i > Len(edges) THEN [found |-> FALSE, edges |-> edges]
    ELSE IF edges[i].isArray
    THEN IF /\ edges[i].source = entityType /\ edges[i].target = edgeType
            /\ edges[i].depth >= 0
         THEN [found |-> TRUE, edges |-> [edges EXCEPT ![i].depth = @ - 1]]
         ELSE findEdgeAtZero(entityType, edgeType, edges, i + 1)
    ELSE IF edges[i].target = edgeType THEN [found |-> TRUE, edges |-> edges]
    ELSE findEdgeAtZero(entityType, edgeType, edges, i + 1)

\* findEdge, from the i-th selector on: the first selector that matches the
\* edge type; a triple matches from its source type while its depth is
\* positive, and is decremented in the list it was found in
RECURSIVE findEdge(_, _, _, _)
findEdge(entityType, edgeType, edges, i) ==
    IF i > Len(edges) THEN [found |-> FALSE, edges |-> edges]
    ELSE IF edges[i].isArray
    THEN IF /\ edges[i].source = entityType /\ edges[i].target = edgeType
            /\ edges[i].depth > 0
         THEN [found |-> TRUE, edges |-> [edges EXCEPT ![i].depth = @ - 1]]
         ELSE findEdge(entityType, edgeType, edges, i + 1)
    ELSE IF edges[i].target = edgeType THEN [found |-> TRUE, edges |-> edges]
    ELSE findEdge(entityType, edgeType, edges, i + 1)

\* what a call did besides returning: the ids read through get, the ids
\* stored from backend queries, the queries issued, the fingerprints
\* loaded, the error it failed with, the ids the backend's get was called
\* for, how deep the calls of stores made by the call are nested, and
\* whether a selector list was changed under the caller that passed it
NoEffects == [loaded |-> {}, stored |-> {}, queries |-> {}, keys |-> {}, error |-> "",
              fetched |-> {}, nest |-> 0, modified |-> FALSE]
Both(a, b) ==
    [loaded |-> a.loaded \cup b.loaded, stored |-> a.stored \cup b.stored,
     queries |-> a.queries \cup b.queries, keys |-> a.keys \cup b.keys,
     error |-> IF a.error # "" THEN a.error ELSE b.error,
     fetched |-> a.fetched \cup b.fetched,
     nest |-> IF a.nest > b.nest THEN a.nest ELSE b.nest,
     modified |-> a.modified \/ b.modified]
\* the effects of a call made by a call of another store
Nested(call) == [call EXCEPT !.eff.nest = @ + 1]
RECURSIVE AllOf(_)
AllOf(calls) ==
    IF calls = <<>> THEN NoEffects
    ELSE Both(Head(calls).eff, AllOf(Tail(calls)))

\* await Promise.all(calls): the results of the n calls, each made once
RECURSIVE PromiseAll(_, _)
PromiseAll(calls, n) ==
    IF n = 0 THEN <<>> ELSE Append(PromiseAll(calls, n - 1), calls[n])

\* entity[key] = value
Assign(entity, key, value) ==
    IF key \in DOMAIN entity THEN [entity EXCEPT ![key] = value]
    ELSE (key :> value) @@ entity
AsValue(entity) == IF entity = Null THEN Null ELSE Obj(entity)

\* cache.get(id, () => db.get(id)) of the store of a type
cacheGet(S, entityType, id) ==
    IF has(S.caches[entityType], id)
    THEN ShallowCopy(S.caches[entityType][id])
    ELSE dbGet(S.db, entityType, id)

\* mutant of readThrough: with cache 'none' the backend is read directly
readAround(S, entityType, id, opts) ==
    IF opts.cache = "none"
    THEN [value |-> dbGet(S.db, entityType, id), fetched |-> TRUE]
    ELSE [value |-> cacheGet(S, entityType, id),
          fetched |-> ~has(S.caches[entityType], id)]

\* get's read, `await cache.get(id, () => db.get(id))`, and whether it called
\* the backend's get
readThrough(S, entityType, id, opts) ==
    [value |-> cacheGet(S, entityType, id),
     fetched |-> ~has(S.caches[entityType], id)]

\* noCache(): get and query call their fallback, nothing is kept
noCache(S) ==
    [S EXCEPT !.caches = [type \in DOMAIN S.caches |-> <<>>], !.queryLoaded = {}]

\* cache.query(opts, () => db.query(opts)) of the store of a type
cacheQuery(S, entityType, q) ==
    IF <<entityType, keyFor(q)>> \in S.queryLoaded
    THEN LET ids == SelectSeq(S.scan, LAMBDA id :
                        /\ has(S.caches[entityType], id)
                        /\ toPredicate(q.where, S.caches[entityType][id]))
         IN  [i \in DOMAIN ids |-> ShallowCopy(S.caches[entityType][ids[i]])]
    ELSE dbQuery(S.db, entityType, q)

RECURSIVE get(_, _, _, _), query(_, _, _), walkEdges(_, _, _, _, _),
          loadEdgesFromIds(_, _, _, _, _), loadIncomingEdges(_, _, _, _, _, _, _)

\* fullDataStore(entityType).get(id, opts)
get(S, entityType, id, opts) ==
    LET read == readThrough(S, entityType, id, opts)
        own == [NoEffects EXCEPT
                   !.loaded = {<<entityType, id>>},
                   !.fetched = IF read.fetched THEN {<<entityType, id>>} ELSE {}]
    IN  IF read.value = Null THEN [value |-> Null, eff |-> [own EXCEPT !.loaded = {}]]
        ELSE LET walked == walkEdges(S, entityType,
                               [entities |-> <<read.value>>, eff |-> own],
                               opts.edges, 1)
             IN  [value |-> walked.entities[1], eff |-> walked.eff]

\* fullDataStore(entityType).query(opts)
query(S, entityType, opts) ==
    LET fromCache == <<entityType, keyFor(opts)>> \in S.queryLoaded
        results == cacheQuery(S, entityType, opts)
        ids == [i \in DOMAIN results |-> results[i].id.v]
        issued == [type |-> entityType, where |-> opts.where, results |-> ids,
                   fromCache |-> fromCache]
        own == [NoEffects EXCEPT
                   !.queries = {issued},
                   !.keys = {<<entityType, keyFor(opts)>>},
                   !.stored = IF fromCache THEN {}
                              ELSE {<<entityType, ids[i]>> : i \in DOMAIN ids}]
        walked == walkEdges(S, entityType, [entities |-> results, eff |-> own],
                            opts.edges, 1)
    IN  [value |-> walked.entities, eff |-> walked.eff]

\* walkEdges, from the i-th field of the schema on; `edges` is the list the
\* caller passed, as the fields walked so far have left it
walkEdges(S, entityType, acc, edges, i) ==
    LET schema == getSchema(entityType)
    IN  IF i > Len(schema) THEN acc
        ELSE
        LET key == schema[i].key
            type == schema[i].type
            isArray == isArrayType(type)
            elemType == IF isArray THEN getElementType(type) ELSE type
            edgeCopies == deepCopyEdges(edges)
        IN  IF isModelRefType(elemType) \/ isInverseModelRefType(elemType)
            THEN LET edgeModelClass == getModelClass(elemType)
                     thisEdge == findEdge(entityType, edgeModelClass, edgeCopies.list, 1)
                     left == Aliased(edges, edgeCopies, thisEdge.edges)
                     seen == [acc EXCEPT !.eff.modified = @ \/ left # edges]
                 IN  IF ~thisEdge.found
                     THEN walkEdges(S, entityType, seen, left, i + 1)
                     ELSE IF isModelRefType(elemType)
                     THEN walkEdges(S, entityType,
                              loadEdgesFromIds(S, seen, key, edgeModelClass,
                                               thisEdge.edges),
                              left, i + 1)
                     ELSE walkEdges(S, entityType,
                              loadIncomingEdges(S, entityType, seen, key,
                                                edgeModelClass, thisEdge.edges,
                                                isArray),
                              left, i + 1)
            ELSE walkEdges(S, entityType, acc, edges, i + 1)

\* loadEdgesFromIds: each entity's reference is replaced by the entity its
\* store returns for the id, an array of references by the array of them
loadEdgesFromIds(S, acc, key, thisEdge, edges) ==
    LET load(entity) ==
            LET edgeValue == Field(entity, key)
            IN  IF edgeValue.t = "object" /\ ~Nullish(Field(edgeValue.v, "id"))
                THEN [value |-> edgeValue, eff |-> NoEffects]
                ELSE IF edgeValue.t = "array"
                THEN LET gets == PromiseAll([j \in DOMAIN edgeValue.v |->
                                     Nested(get(S, thisEdge, edgeValue.v[j].v,
                                                GetOpts(edges, "unset")))],
                                     Len(edgeValue.v))
                     IN  [value |-> Arr([j \in DOMAIN gets |-> AsValue(gets[j].value)]),
                          eff |-> AllOf(gets)]
                ELSE IF ~Nullish(edgeValue)
                THEN LET got == Nested(get(S, thisEdge, edgeValue.v,
                                           GetOpts(edges, "unset")))
                     IN  [value |-> AsValue(got.value), eff |-> got.eff]
                ELSE [value |-> JsUndefined, eff |-> NoEffects]
        values == PromiseAll([n \in DOMAIN acc.entities |-> load(acc.entities[n])],
                             Len(acc.entities))
    IN  [entities |-> PromiseAll([n \in DOMAIN acc.entities |->
                          Assign(acc.entities[n], key, values[n].value)],
                          Len(acc.entities)),
         eff |-> Both(acc.eff, AllOf(values))]

\* mutant of loadIncomingEdges' assignment: the first match also for an
\* array-typed field
assignIncomingFirst(value, isKeyFieldArray) ==
    IF value = <<>> THEN JsUndefined ELSE Obj(Head(value))

\* loadIncomingEdges' assignment: the list, or value.shift()
assignIncoming(value, isKeyFieldArray) ==
    IF isKeyFieldArray THEN Arr([j \in DOMAIN value |-> Obj(value[j])])
    ELSE IF value = <<>> THEN JsUndefined ELSE Obj(Head(value))

\* loadIncomingEdges: throw Error('No matching edge found')
NoMatchingEdge == "No matching edge found"

\* loadIncomingEdges: one query per entity on the edge's store, by the last
\* field of the edge's schema that references this store's type
loadIncomingEdges(S, entityType, acc, key, thisEdge, edges, isKeyFieldArray) ==
    LET edgeSchema == getSchema(thisEdge)
        referring == {f \in DOMAIN edgeSchema :
                        LET type == edgeSchema[f].type
                            elemType == IF isArrayType(type)
                                        THEN getElementType(type) ELSE type
                        IN  /\ isModelRefType(elemType)
                            /\ getModelClass(elemType) = entityType}
        fieldToMatch ==
            IF referring = {} THEN ""
            ELSE edgeSchema[CHOOSE f \in referring : \A g \in referring : g <= f].key
    IN  IF fieldToMatch = ""
        THEN [entities |-> acc.entities,
              eff |-> Both(acc.eff, [NoEffects EXCEPT !.error = NoMatchingEdge])]
        ELSE LET values == PromiseAll([n \in DOMAIN acc.entities |->
                               Nested(query(S, thisEdge,
                                   QueryOpts(<<[field |-> fieldToMatch, op |-> "==",
                                                value |-> acc.entities[n].id.v]>>,
                                             0, edges)))], Len(acc.entities))
             IN  [entities |-> PromiseAll([n \in DOMAIN acc.entities |->
                                   Assign(acc.entities[n], key,
                                          assignIncoming(values[n].value,
                                                         isKeyFieldArray))],
                                   Len(acc.entities)),
                  eff |-> Both(acc.eff, AllOf(values))]

\* the documents the backend holds when the stores are created
Fixture ==
    [Post |->
        [p1 |-> [createdAt |-> Num(0), updatedAt |-> Num(0), title |-> Str("a"),
                 parent |-> Str("p2"), top |-> Str("c2")],
         p2 |-> [createdAt |-> Num(0), updatedAt |-> Num(0), title |-> Str("b"),
                 parent |-> Str("p1")]],
     Comment |->
        [c1 |-> [createdAt |-> Num(0), updatedAt |-> Num(0), text |-> Str("x"),
                 post |-> Str("p1")],
         c2 |-> [createdAt |-> Num(0), updatedAt |-> Num(0), text |-> Str("y"),
                 post |-> Str("p1"), replyTo |-> Str("c1")]],
     Tag |->
        [t1 |-> [createdAt |-> Num(0), updatedAt |-> Num(0), label |-> Str("l"),
                 cover |-> Str("p1")]]]

NoStore == [kind |-> "none", type |-> "", id |-> "", edges |-> <<>>, hit |-> FALSE,
            result |-> Null, queries |-> {}, error |-> "", cache |-> "unset",
            fetched |-> {}, nest |-> 0, modified |-> FALSE, query |-> <<>>,
            optimistic |-> FALSE, cached |-> NotCached, trace |-> <<>>,
            supplied |-> <<>>]
NoCreate == [type |-> "", id |-> "", supplied |-> <<>>, uuid |-> 0, now |-> 0]

\* a store nobody listens to, and one with a listener on p1 and one on every id
NoStoreListeners == [type \in StoreTypes |-> <<>>]
PostListeners ==
    [type \in StoreTypes |->
        IF type = "Post"
        THEN ListenAll(<<[ids |-> <<"p1">>, callback |-> "f"],
                         [ids |-> <<Wildcard>>, callback |-> "g"]>>)
        ELSE <<>>]

StoreState(docs) ==
    /\ db = docs
    /\ caches = [type \in StoreTypes |-> <<>>]
    /\ queryLoaded = {}
    /\ uuids = 0
    /\ creating = Idle
    /\ lastStore = NoStore
    /\ lastCreate = NoCreate

StoreInit(docs) == StoreState(docs) /\ storeListeners = NoStoreListeners

\* what a facade call did to the cache and heard from the backend, in order
CacheEvent(op, id, value, fired) ==
    [ev |-> "cache", op |-> op, id |-> id, value |-> value, fired |-> fired, ok |-> TRUE]
BackendEvent(op, id, ok) ==
    [ev |-> "backend", op |-> op, id |-> id, value |-> Null, fired |-> <<>>, ok |-> ok]

\* cache.put(id, op, value) on the cache c of a store with listeners ls
putEvent(c, ls, id, op, value) ==
    CacheEvent(op, id, value,
               IF shouldTrigger(Existing(c, id), op, value)
               THEN trigger(ls, id, op) ELSE <<>>)
\* cache.remove(id)
removeEvent(c, ls, id) ==
    CacheEvent("remove", id, Null,
               IF has(c, id) THEN trigger(ls, id, "remove") ELSE <<>>)

\* mutant of createTag: the backend's value is always put under 'add'
createTagAdd(optimistic) == "add"

\* create: const op = opts.optimistic ? 'update' : 'add'
createTag(optimistic) == IF optimistic THEN "update" ELSE "add"

\* create(v, opts) up to `await db.create(value)`; Date.now() reads `stamp`
StoreCreate(entityType, fields, optimistic, stamp) ==
    /\ creating = Idle
    /\ Nullish(Field(fields, "id")) => uuids < MaxUuid
    /\ LET value == commonCreateLogic(fields, entityType, uuids + 1, stamp)
           id == value.id.v
           c == caches[entityType]
       IN  /\ caches' = IF optimistic
                        THEN [caches EXCEPT ![entityType] = Store(@, id, value)]
                        ELSE caches
           /\ creating' = [pc |-> "db.create", type |-> entityType, fields |-> fields,
                           value |-> value, optimistic |-> optimistic,
                           uuid |-> uuids + 1, now |-> stamp,
                           trace |-> IF optimistic
                                     THEN <<putEvent(c, storeListeners[entityType],
                                                     id, "add", value)>>
                                     ELSE <<>>]
    /\ uuids' = IF Nullish(Field(fields, "id")) THEN uuids + 1 ELSE uuids
    /\ UNCHANGED <<db, queryLoaded, lastStore, lastCreate, storeListeners,
                   scopeVars, cacheVars, clientVars, loopVars>>

\* firestoreBackend.create(value) completes and create puts what it returned
DbCreateResolves ==
    /\ creating # Idle /\ creating.pc = "db.create"
    /\ LET schema == getSchema(creating.type)
           fields == commonCreateLogic(creating.value, creating.type, uuids, creating.now)
           id == fields.id.v
           doc == toFirestoreFields(fields, schema, TRUE)
           newValue == toModel(id, doc, schema)
           op == createTag(creating.optimistic)
       IN  /\ db' = [db EXCEPT ![creating.type] =
                        [k \in DOMAIN @ \cup {id} |-> IF k = id THEN doc ELSE @[k]]]
           /\ caches' = [caches EXCEPT ![creating.type] = Store(@, id, newValue)]
           /\ lastStore' = [NoStore EXCEPT
                               !.kind = "create", !.type = creating.type,
                               !.id = id, !.result = newValue,
                               !.optimistic = creating.optimistic,
                               !.trace = creating.trace \o
                                   <<BackendEvent("create", id, TRUE),
                                     putEvent(caches[creating.type],
                                              storeListeners[creating.type],
                                              id, op, newValue)>>]
           /\ lastCreate' = [type |-> creating.type, id |-> id,
                             supplied |-> creating.fields,
                             uuid |-> creating.uuid, now |-> creating.now]
    /\ creating' = Idle
    /\ UNCHANGED <<queryLoaded, uuids, storeListeners, scopeVars, cacheVars, clientVars, loopVars>>

\* mutant of commonUpdateThrows: an updater without an id is let through
commonUpdateAccepts(fields) == FALSE

\* commonUpdateLogic: if (id == null) throw Error('Must have an ID to update')
commonUpdateThrows(fields) == Nullish(Field(fields, "id"))
MustHaveId == "Must have an ID to update"

\* commonUpdateLogic: out = {...fields}; out.updatedAt = out.updatedAt ?? now
commonUpdateLogic(fields, now) ==
    [k \in DOMAIN fields \cup {"updatedAt"} |->
        IF k = "updatedAt" /\ Nullish(Field(fields, k)) THEN Num(now) ELSE fields[k]]

\* the key that value.id makes: an absent id reads as the key "undefined"
IdKey(value) ==
    IF Nullish(Field(value, "id")) THEN "undefined" ELSE value.id.v

\* mutant of merged: the optimistic value is the updater alone
mergedUpdaterOnly(cached, value) == value

\* update: const merged = {...cached, ...value}
merged(cached, value) ==
    [k \in DOMAIN cached \cup DOMAIN value |->
        IF k \in DOMAIN value THEN value[k] ELSE cached[k]]

\* mutant of optimisticWrite: update never writes ahead of the backend
optimisticWriteNever(optimistic, c, id) == FALSE

\* update: if (opts.optimistic && (await cache.has(id))) ... if (cached)
optimisticWrite(optimistic, c, id) == optimistic /\ has(c, id)

\* doc.set(fields, {merge: true}): written fields replace, deletes drop the field
setMerge(doc, written) ==
    [k \in {key \in DOMAIN doc \cup DOMAIN written :
               key \in DOMAIN written => written[key].t # FirestoreDelete.t} |->
        IF k \in DOMAIN written THEN written[k] ELSE doc[k]]

\* update(v, opts) up to `await db.update(value)`; Date.now() reads `stamp`
StoreUpdate(entityType, fields, optimistic, stamp) ==
    /\ creating = Idle
    /\ IF commonUpdateThrows(fields)
       THEN /\ lastStore' = [NoStore EXCEPT
                                !.kind = "update", !.type = entityType,
                                !.supplied = fields, !.optimistic = optimistic,
                                !.error = MustHaveId]
            /\ UNCHANGED <<caches, creating>>
       ELSE LET value == commonUpdateLogic(fields, stamp)
                id == IdKey(value)
                c == caches[entityType]
                writes == optimisticWrite(optimistic, c, id)
                ahead == merged(Existing(c, id), value)
            IN  /\ caches' = IF writes
                             THEN [caches EXCEPT ![entityType] = Store(@, id, ahead)]
                             ELSE caches
                /\ creating' =
                       [pc |-> "db.update", type |-> entityType, fields |-> fields,
                        value |-> value, optimistic |-> optimistic, now |-> stamp,
                        cached |-> Existing(c, id),
                        trace |->
                           (IF optimistic
                            THEN <<CacheEvent("has", id, Null, <<>>)>> ELSE <<>>) \o
                           (IF writes
                            THEN <<CacheEvent("get", id, Null, <<>>),
                                   putEvent(c, storeListeners[entityType],
                                            id, "update", ahead)>>
                            ELSE <<>>)]
                /\ UNCHANGED lastStore
    /\ UNCHANGED <<db, queryLoaded, uuids, lastCreate, storeListeners,
                   scopeVars, cacheVars, clientVars, loopVars>>

\* firestoreBackend.update(value) completes and update puts what it returned
DbUpdateResolves ==
    /\ creating # Idle /\ creating.pc = "db.update"
    /\ LET schema == getSchema(creating.type)
           fields == commonUpdateLogic(creating.value, creating.now)
           id == IdKey(fields)
           docs == db[creating.type]
           doc == setMerge(IF id \in DOMAIN docs THEN docs[id] ELSE <<>>,
                           toFirestoreFields(fields, schema, FALSE))
           newValue == toModel(id, doc, schema)
       IN  /\ db' = [db EXCEPT ![creating.type] =
                        [k \in DOMAIN @ \cup {id} |-> IF k = id THEN doc ELSE @[k]]]
           /\ caches' = [caches EXCEPT ![creating.type] = Store(@, id, newValue)]
           /\ lastStore' = [NoStore EXCEPT
                               !.kind = "update", !.type = creating.type,
                               !.id = id, !.result = newValue,
                               !.supplied = creating.fields,
                               !.optimistic = creating.optimistic,
                               !.cached = creating.cached,
                               !.trace = creating.trace \o
                                   <<BackendEvent("update", id, TRUE),
                                     putEvent(caches[creating.type],
                                              storeListeners[creating.type],
                                              id, "update", newValue)>>]
    /\ creating' = Idle
    /\ UNCHANGED <<queryLoaded, uuids, lastCreate, storeListeners, scopeVars, cacheVars, clientVars, loopVars>>

\* the backend's error, as the awaiting call rethrows it
BackendError == "backend unavailable"

\* `await db.update(value)` or `await db.remove(id)` rejects: the call rejects
DbRejects ==
    /\ creating # Idle /\ creating.pc \in {"db.update", "db.remove"}
    /\ lastStore' = [NoStore EXCEPT
                        !.kind = IF creating.pc = "db.update" THEN "update" ELSE "remove",
                        !.type = creating.type,
                        !.id = IdKey(creating.value),
                        !.supplied = creating.fields,
                        !.optimistic = creating.optimistic,
                        !.cached = creating.cached,
                        !.error = BackendError,
                        !.trace = Append(creating.trace,
                                         BackendEvent(IF creating.pc = "db.update"
                                                      THEN "update" ELSE "remove",
                                                      IdKey(creating.value), FALSE))]
    /\ creating' = Idle
    /\ UNCHANGED <<db, caches, queryLoaded, uuids, lastCreate, storeListeners,
                   scopeVars, cacheVars, clientVars, loopVars>>

\* mutant of removesAhead: the cache entry is always evicted after the backend
removesAfter(optimistic) == FALSE

\* remove: if (opts.optimistic) cache.remove(id), else after `await db.remove(id)`
removesAhead(optimistic) == optimistic

\* remove(id, opts) up to `await db.remove(id)`
StoreRemove(entityType, id, optimistic) ==
    /\ creating = Idle
    /\ LET c == caches[entityType]
           ahead == removesAhead(optimistic)
       IN  /\ caches' = IF ahead THEN [caches EXCEPT ![entityType] = Delete(@, id)]
                        ELSE caches
           /\ creating' =
                  [pc |-> "db.remove", type |-> entityType, fields |-> <<>>,
                   value |-> [id |-> Str(id)], optimistic |-> optimistic,
                   cached |-> Existing(c, id),
                   trace |-> IF ahead
                             THEN <<removeEvent(c, storeListeners[entityType], id)>>
                             ELSE <<>>]
    /\ UNCHANGED <<db, queryLoaded, uuids, lastStore, lastCreate, storeListeners,
                   scopeVars, cacheVars, clientVars, loopVars>>

\* firestoreBackend.remove(id) completes: doc.delete()
DbRemoveResolves ==
    /\ creating # Idle /\ creating.pc = "db.remove"
    /\ LET id == IdKey(creating.value)
           c == caches[creating.type]
           after == ~removesAhead(creating.optimistic)
       IN  /\ db' = [db EXCEPT ![creating.type] = Delete(@, id)]
           /\ caches' = IF after THEN [caches EXCEPT ![creating.type] = Delete(@, id)]
                        ELSE caches
           /\ lastStore' = [NoStore EXCEPT
                               !.kind = "remove", !.type = creating.type, !.id = id,
                               !.optimistic = creating.optimistic,
                               !.cached = creating.cached,
                               !.trace = creating.trace \o
                                   <<BackendEvent("remove", id, TRUE)>> \o
                                   (IF after
                                    THEN <<removeEvent(c, storeListeners[creating.type],
                                                       id)>>
                                    ELSE <<>>)]
    /\ creating' = Idle
    /\ UNCHANGED <<queryLoaded, uuids, lastCreate, storeListeners, scopeVars, cacheVars, clientVars, loopVars>>

\* the cache after a call: what get loaded is stored unless cached, what a
\* backend query returned is stored
Loaded(eff) ==
    [type \in StoreTypes |->
        LET ids == {p[2] : p \in {q \in eff.loaded \cup eff.stored : q[1] = type}}
        IN  [id \in DOMAIN caches[type] \cup ids |->
                IF <<type, id>> \in eff.stored \/ ~has(caches[type], id)
                THEN dbGet(db, type, id) ELSE caches[type][id]]]

\* what a get or a query leaves behind: the caches filled and the
\* fingerprints marked
Leaves(eff) ==
    /\ caches' = Loaded(eff)
    /\ queryLoaded' = queryLoaded \cup eff.keys

\* mutant of barrier: what was walked is returned although an edge failed
barrierPartial(value, error, failed) == value

\* `await Promise.all(promises)` in walkEdges: the call returns its value only
\* if no edge resolution rejected, and rejects otherwise
barrier(value, error, failed) == IF error = "" THEN value ELSE failed

\* the call of get to record, with its result
Returns(entityType, id, opts, got) ==
    /\ Leaves(got.eff)
    /\ lastStore' = [NoStore EXCEPT
                        !.kind = "get", !.type = entityType, !.id = id,
                        !.edges = opts.edges, !.cache = opts.cache,
                        !.hit = has(caches[entityType], id),
                        !.cached = Existing(caches[entityType], id),
                        !.result = barrier(got.value, got.eff.error, Null),
                        !.queries = got.eff.queries, !.error = got.eff.error,
                        !.fetched = got.eff.fetched, !.nest = got.eff.nest,
                        !.modified = got.eff.modified]

\* the stores as a call finds them; `scan` is the order in which a cache lists
\* its entries
Stores(scan) == [db |-> db, caches |-> caches, queryLoaded |-> queryLoaded, scan |-> scan]

\* get(id, opts)
StoreGet(entityType, id, opts, scan) ==
    /\ Returns(entityType, id, opts, get(Stores(scan), entityType, id, opts))
    /\ UNCHANGED <<db, uuids, creating, lastCreate, storeListeners, scopeVars, cacheVars, clientVars, loopVars>>

\* the call of query to record, with its result
QueryReturned(entityType, opts, got) ==
    /\ Leaves(got.eff)
    /\ lastStore' = [NoStore EXCEPT
                        !.kind = "query", !.type = entityType, !.query = opts,
                        !.edges = opts.edges,
                        !.result = barrier(got.value, got.eff.error, <<>>),
                        !.queries = got.eff.queries, !.error = got.eff.error,
                        !.fetched = got.eff.fetched, !.nest = got.eff.nest,
                        !.modified = got.eff.modified]

\* query(opts)
StoreQuery(entityType, opts, scan) ==
    /\ QueryReturned(entityType, opts, query(Stores(scan), entityType, opts))
    /\ UNCHANGED <<db, uuids, creating, lastCreate, storeListeners, scopeVars, cacheVars, clientVars, loopVars>>

\* invalidate(id) on the cache of a store
StoreInvalidate(entityType, id) ==
    /\ caches' = [caches EXCEPT ![entityType] = Delete(@, id)]
    /\ UNCHANGED <<db, queryLoaded, uuids, creating, lastStore, lastCreate,
                   storeListeners, scopeVars, cacheVars, clientVars, loopVars>>

\* the readings of Date.now()
Stamps == {1, 2}

\* the updaters passed to create
PostUpdaters ==
    { [title |-> Str("new"), draft |-> Str("yes")],
      [id |-> Str("p2"), createdAt |-> Num(0), title |-> Str("edit"),
       parent |-> Obj([id |-> Str("p1")])],
      [id |-> Str("p1"), updatedAt |-> Num(0), title |-> Null] }

\* the selector lists passed to get
EdgeSelections ==
    { <<Triple("Post", "Post", 1)>>, <<Triple("Post", "Post", 2)>>,
      <<Triple("Post", "Comment", 1)>>, <<Bare("Comment")>>,
      <<Triple("Post", "Comment", 1), Triple("Comment", "Post", 1)>> }

(***************************************************************************)
(* DataStoreImpl.tsx and DataCache.tsx on the JavaScript event loop.  An   *)
(* async function runs until its next await; the continuation of an await *)
(* is a job of the microtask queue, which is served first in, first out;   *)
(* an answer of the backend arrives as a task, when the queue is empty.    *)
(* Objects live on a heap, so that the object a call returns and the copy  *)
(* the cache holds are told apart.                                         *)
(***************************************************************************)
\* facade calls given to the event loop in one run
MaxCalls == 2
\* async function activations of one call (a walk that does not end is cut here)
MaxActs == 30

NoAct == [fn |-> "", pc |-> "done", parent |-> 0, slot |-> 0, type |-> "", id |-> "",
          edges |-> <<>>, objs |-> <<>>, key |-> "", isArray |-> FALSE,
          target |-> "", where |-> <<>>, waiting |-> 0, values |-> <<>>, i |-> 0,
          error |-> "", cached |-> {}]

\* the event loop and the objects it works on, as one value
Machine == [heap |-> heap, held |-> held, marked |-> marked, acts |-> acts,
            jobs |-> jobs, requests |-> requests, returned |-> returned]
Becomes(M) ==
    /\ heap' = M.heap
    /\ held' = M.held
    /\ marked' = M.marked
    /\ acts' = M.acts
    /\ jobs' = M.jobs
    /\ requests' = M.requests
    /\ returned' = M.returned

\* a reference to a heap object, as the value of a field
ObjRef(r) == [t |-> "object", ref |-> r]
Alloc(M, fields) == [M EXCEPT !.heap = Append(@, fields)]
Enqueue(M, a) == [M EXCEPT !.jobs = Append(@, a)]
\* the continuation of activation a is queued, to resume at pc
Await(M, a, pc) == Enqueue([M EXCEPT !.acts[a].pc = pc], a)

\* mutant of spread: the object itself instead of a copy
spreadAlias(M, obj) == [m |-> M, ref |-> obj]

\* {...value}: a new object with the fields of value
spread(M, obj) == [m |-> Alloc(M, M.heap[obj]), ref |-> Len(M.heap) + 1]

\* put, after its await: const copy = {...value}; cache[id] = copy
cachePut(M, type, id, obj) ==
    LET copy == spread(M, obj)
    IN  [copy.m EXCEPT !.held[type] = (id :> copy.ref) @@ @]

\* put up to its await, `await get(id, async () => null)`: where it resumes.
\* A cached id is returned at once; otherwise get awaits the null loader first.
putAwaits(M, type, id) ==
    IF id \in DOMAIN M.held[type] THEN "put.afterGet" ELSE "put.get.afterFn"

\* [n \in 1..Len(seq)] folded from the left
RECURSIVE Fold(_, _, _, _)
Fold(Op(_, _), M, seq, n) ==
    IF n > Len(seq) THEN M ELSE Fold(Op, Op(M, n), seq, n + 1)

RECURSIVE Spawn(_, _), walkFields(_, _, _, _)

\* fullDataStore.get up to its await of cache.get(id, () => db.get(id))
getEntry(M, a) ==
    LET act == M.acts[a]
    IN  IF act.id \in DOMAIN M.held[act.type]
        THEN LET copy == spread(M, M.held[act.type][act.id])
             IN  Await([copy.m EXCEPT !.acts[a].objs = <<copy.ref>>], a, "gotValue")
        ELSE [M EXCEPT !.acts[a].pc = "db", !.requests = @ \cup {a}]

\* fullDataStore.query up to its await of cache.query(opts, () => db.query(opts))
queryEntry(M, a) ==
    LET act == M.acts[a]
        q == [where |-> act.where]
    IN  IF <<act.type, keyFor(q)>> \in M.marked
        THEN LET ids == SelectSeq(IdsInOrder, LAMBDA id :
                            /\ id \in DOMAIN M.held[act.type]
                            /\ toPredicate(act.where, M.heap[M.held[act.type][id]]))
                 copy(m, n) ==
                     LET c == spread(m, m.held[act.type][ids[n]])
                     IN  [c.m EXCEPT !.acts[a].objs = Append(@, c.ref)]
             IN  Await(Fold(copy, M, ids, 1), a, "gotResults")
        ELSE [M EXCEPT !.acts[a].pc = "db", !.requests = @ \cup {a}]

\* the unawaited cache.put(id, 'load', value) of get and query, up to its await
putEntry(M, a) ==
    LET act == M.acts[a]
    IN  Await(M, a, IF act.id \in DOMAIN M.held[act.type] THEN "copy" ELSE "get.afterFn")

\* loadEdgesFromIds up to `await Promise.all(entities.map(...))`
loadEntry(M, a) ==
    LET act == M.acts[a]
        one(m, n) ==
            LET edgeValue == Field(m.heap[act.objs[n]], act.key)
            IN  IF edgeValue.t = "object"
                THEN [m EXCEPT !.acts[a].values[n] = edgeValue]
                ELSE IF edgeValue.t = "string"
                THEN Spawn([m EXCEPT !.acts[a].waiting = @ + 1],
                           [NoAct EXCEPT !.fn = "get", !.parent = a, !.slot = n,
                                         !.type = act.target, !.id = edgeValue.v,
                                         !.edges = act.edges])
                ELSE m
        mapped == Fold(one, M, act.objs, 1)
    IN  IF act.objs = <<>> THEN Await(mapped, a, "afterAll")
        ELSE IF mapped.acts[a].waiting = 0 THEN Await(mapped, a, "resolved")
        ELSE [mapped EXCEPT !.acts[a].pc = "awaitAll"]

\* the field of the edge's schema that loadIncomingEdges matches on
fieldToMatch(entityType, thisEdge) ==
    LET edgeSchema == getSchema(thisEdge)
        referring == {f \in DOMAIN edgeSchema :
                        LET type == edgeSchema[f].type
                            elemType == IF isArrayType(type)
                                        THEN getElementType(type) ELSE type
                        IN  /\ isModelRefType(elemType)
                            /\ getModelClass(elemType) = entityType}
    IN  IF referring = {} THEN ""
        ELSE edgeSchema[CHOOSE f \in referring : \A g \in referring : g <= f].key

\* loadIncomingEdges up to `await Promise.all(entities.map(...))`
incomingEntry(M, a) ==
    LET act == M.acts[a]
        one(m, n) ==
            Spawn([m EXCEPT !.acts[a].waiting = @ + 1],
                  [NoAct EXCEPT !.fn = "query", !.parent = a, !.slot = n,
                                !.type = act.target,
                                !.where = <<[field |-> fieldToMatch(act.type, act.target),
                                             op |-> "==",
                                             value |-> m.heap[act.objs[n]].id.v]>>,
                                !.edges = act.edges])
        mapped == Fold(one, M, act.objs, 1)
    IN  IF fieldToMatch(act.type, act.target) = ""
        THEN [M EXCEPT !.acts[a].pc = "done",
                       !.acts[act.parent].error = NoMatchingEdge]
        ELSE IF act.objs = <<>> THEN Await(mapped, a, "afterAll")
        ELSE [mapped EXCEPT !.acts[a].pc = "awaitAll"]

\* walkEdges up to `await Promise.all(promises)`: the loop over the schema
walkFields(M, a, edges, i) ==
    LET act == M.acts[a]
        schema == getSchema(act.type)
    IN  IF i > Len(schema)
        THEN IF act.error # "" THEN Await(M, a, "resolved")
             ELSE IF act.waiting = 0 THEN Await(M, a, "afterAll")
             ELSE [M EXCEPT !.acts[a].pc = "awaitAll"]
        ELSE
        LET key == schema[i].key
            type == schema[i].type
            isArray == isArrayType(type)
            elemType == IF isArray THEN getElementType(type) ELSE type
            edgeCopies == deepCopyEdges(edges)
        IN  IF isModelRefType(elemType) \/ isInverseModelRefType(elemType)
            THEN LET edgeModelClass == getModelClass(elemType)
                     thisEdge == findEdge(act.type, edgeModelClass, edgeCopies.list, 1)
                     left == Aliased(edges, edgeCopies, thisEdge.edges)
                 IN  IF ~thisEdge.found THEN walkFields(M, a, left, i + 1)
                     ELSE walkFields(
                              Spawn([M EXCEPT !.acts[a].waiting = @ + 1],
                                    [NoAct EXCEPT
                                        !.fn = IF isModelRefType(elemType)
                                               THEN "load" ELSE "incoming",
                                        !.parent = a, !.type = act.type,
                                        !.objs = act.objs, !.key = key,
                                        !.isArray = isArray,
                                        !.target = edgeModelClass,
                                        !.edges = thisEdge.edges,
                                        !.values = [n \in DOMAIN act.objs |->
                                                       JsUndefined]]),
                              a, left, i + 1)
            ELSE walkFields(M, a, edges, i + 1)

\* the ids the caches hold
CachedIds(M) == UNION {{<<type, id>> : id \in DOMAIN M.held[type]} : type \in DOMAIN M.held}

\* a call of an async function: it runs to its first await; the activation
\* records what was cached when it was called
Spawn(M, act) ==
    LET m == [M EXCEPT !.acts = Append(@, [act EXCEPT !.cached = CachedIds(M)])]
        a == Len(m.acts)
    IN  CASE act.fn = "get" -> getEntry(m, a)
          [] act.fn = "query" -> queryEntry(m, a)
          [] act.fn = "put" -> putEntry(m, a)
          [] act.fn = "load" -> loadEntry(m, a)
          [] act.fn = "incoming" -> incomingEntry(m, a)
          [] act.fn = "walk" -> walkFields(m, a, act.edges, 1)

\* a rejected promise, as the outcome of a call
Rejected(message) == [t |-> "error", v |-> message]

\* activation a returns value or throws: the promise of its call is settled.
\* Promise.all is rejected by the first rejection and fulfilled by the last
\* fulfilment; what settles after it was rejected is dropped.
Return(M, a, value) ==
    LET act == M.acts[a]
        m == [M EXCEPT !.acts[a].pc = "done"]
        p == act.parent
    IN  IF p = 0
        THEN IF act.fn \in {"get", "query"}
             THEN [m EXCEPT !.returned =
                     [fn |-> act.fn, type |-> act.type, id |-> act.id,
                      edges |-> act.edges,
                      value |-> IF value.t = "error" THEN <<>> ELSE act.objs,
                      error |-> IF value.t = "error" THEN value.v ELSE ""]]
             ELSE m
        ELSE IF m.acts[p].fn \in {"get", "query"}
        THEN IF value.t = "error"
             THEN Await([m EXCEPT !.acts[p].error = value.v], p, "threw")
             ELSE Await(m, p, "walked")
        ELSE IF m.acts[p].pc # "awaitAll" THEN m
        ELSE IF value.t = "error"
        THEN Await([m EXCEPT !.acts[p].error = value.v], p, "resolved")
        ELSE LET told == [m EXCEPT !.acts[p].waiting = @ - 1,
                                   !.acts[p].values =
                                       IF act.slot > 0
                                       THEN [@ EXCEPT ![act.slot] = value] ELSE @]
             IN  IF told.acts[p].waiting = 0 THEN Await(told, p, "resolved")
                 ELSE told

\* results.forEach(v => cache.put(v.id, 'load', v)), or the put of get
putEach(M, type, objs) ==
    LET one(m, n) ==
            Spawn(m, [NoAct EXCEPT !.fn = "put", !.type = type,
                                   !.id = m.heap[objs[n]].id.v, !.objs = <<objs[n]>>])
    IN  Fold(one, M, objs, 1)

\* get and query after their read: the unawaited puts, then `await walkEdges`
putAndWalk(M, a) ==
    LET act == M.acts[a]
        put == putEach(M, act.type, act.objs)
    IN  Spawn([put EXCEPT !.acts[a].pc = "walking"],
              [NoAct EXCEPT !.fn = "walk", !.parent = a, !.type = act.type,
                            !.objs = act.objs, !.edges = act.edges])

\* cache.query's loop `for (const item of results) await put(id, 'load', item)`
\* from item i on, and `queryLoaded[key] = true` after it
queryLoop(M, a, i) ==
    LET act == M.acts[a]
    IN  IF i > Len(act.objs)
        THEN Await([M EXCEPT !.marked = @ \cup {<<act.type, keyFor([where |-> act.where])>>}],
                   a, "gotResults")
        ELSE Await([M EXCEPT !.acts[a].i = i], a,
                   putAwaits(M, act.type, M.heap[act.objs[i]].id.v))

\* loadIncomingEdges' assignment: the list, or value.shift()
incomingValue(value, isKeyFieldArray) ==
    IF isKeyFieldArray THEN value
    ELSE IF value.v = <<>> THEN JsUndefined ELSE Head(value.v)

\* values.forEach((value, index) => { entities[index][key] = value; })
assignEach(M, a) ==
    LET act == M.acts[a]
        one(m, n) ==
            [m EXCEPT !.heap[act.objs[n]] =
                Assign(@, act.key,
                       IF act.fn = "load" THEN act.values[n]
                       ELSE incomingValue(act.values[n], act.isArray))]
    IN  Fold(one, M, act.objs, 1)

\* the job of activation a runs: from its await to the next one
Resume(M, a) ==
    LET act == M.acts[a]
        pc == act.pc
    IN  CASE act.fn = "get" /\ pc = "afterFn" ->
                IF act.objs = <<>> THEN Await(M, a, "gotValue")
                ELSE Await(M, a, putAwaits(M, act.type, act.id))
          [] act.fn = "get" /\ pc = "put.get.afterFn" -> Await(M, a, "put.afterGet")
          [] act.fn = "get" /\ pc = "put.afterGet" ->
                Await(cachePut(M, act.type, act.id, act.objs[1]), a, "afterPut")
          [] act.fn = "get" /\ pc = "afterPut" -> Await(M, a, "gotValue")
          [] act.fn = "get" /\ pc = "gotValue" ->
                IF act.objs = <<>> THEN Return(M, a, Null) ELSE putAndWalk(M, a)
          [] act.fn = "get" /\ pc = "walked" -> Return(M, a, ObjRef(act.objs[1]))
          [] act.fn = "query" /\ pc = "afterFn" -> queryLoop(M, a, 1)
          [] act.fn = "query" /\ pc = "put.get.afterFn" -> Await(M, a, "put.afterGet")
          [] act.fn = "query" /\ pc = "put.afterGet" ->
                Await(cachePut(M, act.type, M.heap[act.objs[act.i]].id.v,
                               act.objs[act.i]), a, "afterPut")
          [] act.fn = "query" /\ pc = "afterPut" -> queryLoop(M, a, act.i + 1)
          [] act.fn = "query" /\ pc = "gotResults" -> putAndWalk(M, a)
          [] act.fn = "query" /\ pc = "walked" ->
                Return(M, a, Arr([n \in DOMAIN act.objs |-> ObjRef(act.objs[n])]))
          [] act.fn = "put" /\ pc = "get.afterFn" -> Await(M, a, "copy")
          [] act.fn = "put" /\ pc = "copy" ->
                [cachePut(M, act.type, act.id, act.objs[1]) EXCEPT !.acts[a].pc = "done"]
          [] act.fn \in {"walk", "load", "incoming"} /\ pc = "resolved" ->
                Await(M, a, "afterAll")
          [] act.fn \in {"get", "query"} /\ pc = "threw" ->
                Return(M, a, Rejected(act.error))
          [] act.fn \in {"walk", "load", "incoming"} /\ pc = "afterAll" ->
                IF act.error # "" THEN Return(M, a, Rejected(act.error))
                ELSE IF act.fn = "walk" THEN Return(M, a, JsUndefined)
                ELSE Return(assignEach(M, a), a, JsUndefined)

\* the backend answers db.get or db.query of activation a: a new object each
Answered(M, a) ==
    LET act == M.acts[a]
        m == [M EXCEPT !.requests = @ \ {a}]
    IN  IF act.fn = "get"
        THEN LET value == dbGet(db, act.type, act.id)
             IN  IF value = Null THEN Await(m, a, "afterFn")
                 ELSE Await([Alloc(m, value) EXCEPT !.acts[a].objs = <<Len(m.heap) + 1>>],
                            a, "afterFn")
        ELSE LET results == dbQuery(db, act.type, [where |-> act.where, limit |-> 0])
                 one(h, n) == [h EXCEPT !.heap = Append(@, results[n]),
                                        !.acts[a].objs = Append(@, Len(h.heap) + 1)]
             IN  Await(Fold(one, m, results, 1), a, "afterFn")

\* nothing is running, queued or awaited
LoopIdle == jobs = <<>> /\ requests = {}

\* the application calls get(id, {edges}) on the store of a type, one call at
\* a time; the activations of the call before are dropped
LoopGet(type, id, edges) ==
    /\ LoopIdle
    /\ called < MaxCalls
    /\ called' = called + 1
    /\ Becomes(Spawn([Machine EXCEPT !.acts = <<>>],
                     [NoAct EXCEPT !.fn = "get", !.type = type, !.id = id,
                                   !.edges = edges]))
    /\ UNCHANGED <<scopeVars, cacheVars, storeVars, clientVars>>

\* the application calls query({where, edges}) on the store of a type
LoopQuery(type, where, edges) ==
    /\ LoopIdle
    /\ called < MaxCalls
    /\ called' = called + 1
    /\ Becomes(Spawn([Machine EXCEPT !.acts = <<>>],
                     [NoAct EXCEPT !.fn = "query", !.type = type, !.where = where,
                                   !.edges = edges]))
    /\ UNCHANGED <<scopeVars, cacheVars, storeVars, clientVars>>

\* the event loop runs the first job of the microtask queue
RunJob ==
    /\ jobs # <<>>
    /\ Len(acts) < MaxActs
    /\ Becomes(Resume([Machine EXCEPT !.jobs = Tail(@)], Head(jobs)))
    /\ UNCHANGED <<called, scopeVars, cacheVars, storeVars, clientVars>>

\* the microtask queue is empty and an answer of the backend arrives
Answer(a) ==
    /\ jobs = <<>>
    /\ a \in requests
    /\ Len(acts) < MaxActs
    /\ Becomes(Answered(Machine, a))
    /\ UNCHANGED <<called, scopeVars, cacheVars, storeVars, clientVars>>

(***************************************************************************)
(* Specifications.                                                         *)
(***************************************************************************)
\* resolution: three nested scopes, registrations and lookups
UseNext ==
    \/ \E s \in scopes, key \in Keys, v \in Values :
          provide(s, key, v) /\ UNCHANGED <<clientVars, loopVars>>
    \/ \E s \in scopes, key \in Keys, v \in Values :
          provideValue(s, key, v) /\ UNCHANGED <<clientVars, loopVars>>
    \/ \E s \in scopes, key \in Keys : Use(s, key) /\ UNCHANGED <<clientVars, loopVars>>

NoDocs == [type \in StoreTypes |-> <<>>]
UseInit == ScopeInit(Scopes) /\ CacheInit({}) /\ StoreInit(NoDocs)
SpecUse == UseInit /\ [][UseNext]_vars

\* notification: a parent and a child scope, listeners and provided values
ListenNext ==
    \/ \E s \in scopes, key \in Keys, v \in Values :
          provideValue(s, key, v) /\ UNCHANGED <<clientVars, loopVars>>
    \/ \E s \in scopes, key \in Keys, fn \in Fns :
          listen(s, key, fn) /\ UNCHANGED <<clientVars, loopVars>>
    \/ \E u \in DOMAIN unlisteners : unlisten(u) /\ UNCHANGED <<clientVars, loopVars>>

ListenInit == ScopeInit({"app", "screen"}) /\ CacheInit({}) /\ StoreInit(NoDocs)
SpecListen == ListenInit /\ [][ListenNext]_vars

\* a component tree under a parent and a child scope: components that call
\* use(theme) mount, the application provides themes, pending refreshes run
ThemeKey == providerKeyFor(1, KeyProps[1])
ClientNext ==
    \/ \E c \in Components, s \in scopes : Mount(c, s, ThemeKey)
    \/ \E s \in scopes, v \in Values : ClientProvideValue(s, ThemeKey, v)
    \/ \E c \in Components : Refresh(c)

\* <Scope name="app" providers={[providesValue(theme, "light")]}> around
\* <Scope name="screen" providers={[]}>
ClientTreeInit ==
    /\ ListenInit
    /\ providerMap = [s \in Scopes |->
           IF s = "app" THEN scope(<<[KeyForProvidesValue |-> 1, value |-> "light"]>>)
           ELSE scope(<<>>)]
SpecClient == ClientTreeInit /\ [][ClientNext]_vars
\* the event loop runs every callback that setTimeout has queued
SpecClientFair == SpecClient /\ \A c \in Components : WF_vars(Refresh(c))

\* ApplyLayout rendered under the app scope, the components of its screen and
\* of the app scope that call useReloadState(), and calls of reload()
ReloadNext ==
    \/ ApplyLayout("app")
    \/ reload
    \/ \E c \in Components, s \in scopes : Mount(c, s, ReloadState)
    \/ \E c \in Components : Refresh(c)

ReloadInit ==
    /\ ScopeInit({"app"}) /\ CacheInit({}) /\ StoreInit(NoDocs)
    /\ providerMap = [s \in Scopes |-> scope(<<>>)]
SpecReload == ReloadInit /\ [][ReloadNext]_vars
SpecReloadFair == SpecReload /\ \A c \in Components : WF_vars(Refresh(c))

\* gets and queries with edge selectors on the event loop, over the fixture:
\* forward references, inverse references and a bare token on references
\* that form no cycle
LoopSelections ==
    { <<>>, <<Triple("Post", "Post", 1)>>, <<Triple("Post", "Comment", 1)>>,
      <<Bare("Comment")>> }
LoopNext ==
    \/ \E id \in {"p1", "p2"}, edges \in LoopSelections : LoopGet("Post", id, edges)
    \/ LoopGet("Tag", "t1", <<Triple("Tag", "Post", 1)>>)
    \/ \E edges \in {<<>>, <<Triple("Comment", "Post", 1)>>} :
          LoopQuery("Comment", <<[field |-> "post", op |-> "==", value |-> "p1"]>>, edges)
    \/ RunJob
    \/ \E a \in requests : Answer(a)

LoopStoreInit == ScopeInit({}) /\ CacheInit({}) /\ StoreInit(Fixture)
SpecLoop == LoopStoreInit /\ [][LoopNext]_vars

\* gets and queries of posts without edges, with the parent to depth 2 and
\* with the bare Post token: p1 and p2 name each other as parent
CycleSelections == {<<>>, <<Triple("Post", "Post", 2)>>, <<Bare("Post")>>}
CycleNext ==
    \/ \E id \in {"p1", "p2"}, edges \in CycleSelections : LoopGet("Post", id, edges)
    \/ \E edges \in CycleSelections : LoopQuery("Post", <<>>, edges)
    \/ RunJob
    \/ \E a \in requests : Answer(a)
SpecCycle == LoopStoreInit /\ [][CycleNext]_vars

\* one cache namespace, its callers and its listeners
CacheOnlyInit == ScopeInit({}) /\ CacheInit({"c1"}) /\ StoreInit(NoDocs)
SpecCache == CacheOnlyInit /\ [][CacheNext]_vars

\* queries of one cache namespace by two callers, with evictions in between
QueryNext ==
    \/ \E c \in callers, q \in Queries, scan \in ScanOrders(DOMAIN cache) :
          CacheQueryCall(c, q, scan)
    \/ \E c \in callers, results \in QueryResults : QueryFallbackResolves(c, results)
    \/ \E c \in callers : QueryPutResumes(c)
    \/ \E c \in callers, id \in CacheIds : CacheRemove(c, id)

QueryInit ==
    ScopeInit({}) /\ CacheInit({"c1", "c2"}) /\ cacheListeners = <<>> /\ StoreInit(NoDocs)
SpecQuery == QueryInit /\ [][QueryNext]_vars

\* gets and queries of one cache by two callers whose fallbacks may throw,
\* with listeners on u1 and on every id
ThrowQueries == {[where |-> w, order |-> <<>>, limit |-> 0] : w \in Wheres}
ThrowNext ==
    \/ \E c \in callers, id \in CacheIds : CacheGetCall(c, id)
    \/ \E c \in callers, v \in {Entity("u1", "Ann", 0), Entity("u2", "Bob", 1), Null} :
          FallbackResolves(c, v)
    \/ \E c \in callers : CachePutResumes(c)
    \/ \E c \in callers, q \in ThrowQueries, scan \in ScanOrders(DOMAIN cache) :
          CacheQueryCall(c, q, scan)
    \/ \E c \in callers, results \in QueryResults : QueryFallbackResolves(c, results)
    \/ \E c \in callers : QueryPutResumes(c)
    \/ \E c \in callers : FallbackThrows(c)

ThrowInit ==
    /\ ScopeInit({}) /\ CacheInit({"c1", "c2"}) /\ StoreInit(NoDocs)
    /\ cacheListeners = ListenAll(<<[ids |-> <<"u1">>, callback |-> "f"],
                                    [ids |-> <<Wildcard>>, callback |-> "g"]>>)
SpecThrow == ThrowInit /\ [][ThrowNext]_vars

\* listen calls on one cache, the functions they return called in any order,
\* once or again, and an entity added and removed by one caller
SubscribeIds == {<<"u1">>, <<"u1", "u2">>, <<"u1", "u1">>, <<Wildcard>>}
SubscribeNext ==
    \/ \E ids \in SubscribeIds, callback \in Fns : CacheListen(ids, callback)
    \/ \E u \in DOMAIN cacheUnlisteners : CacheUnlisten(u)
    \/ CachePutCall("c1", "u1", "add", Entity("u1", "Ann", 0))
    \/ CachePutResumes("c1")
    \/ CacheRemove("c1", "u1")

SubscribeInit ==
    ScopeInit({}) /\ CacheInit({"c1"}) /\ cacheListeners = <<>> /\ StoreInit(NoDocs)
SpecSubscribe == SubscribeInit /\ [][SubscribeNext]_vars

\* two callers of one cache whose gets of the same ids overlap, each with its
\* own fallback loader
FlightNext ==
    \/ \E c \in callers, id \in CacheIds : CacheGetCall(c, id)
    \/ \E c \in callers, v \in AllEntities \cup {Null} : FallbackResolves(c, v)
    \/ \E c \in callers : CachePutResumes(c)
    \/ \E c \in callers, id \in CacheIds : CacheRemove(c, id)

SpecFlight == ThrowInit /\ [][FlightNext]_vars

\* reads of a tag, whose inverse field names posts although no post field
\* references tags, among reads of posts and comments
MismatchNext ==
    \/ \E edges \in {<<>>, <<Triple("Tag", "Post", 1)>>, <<Triple("Tag", "Post", 2)>>} :
          StoreGet("Tag", "t1", GetOpts(edges, "unset"), <<>>)
    \/ \E id \in {"p1", "p2"}, edges \in {<<>>, <<Triple("Post", "Post", 1)>>} :
          StoreGet("Post", id, GetOpts(edges, "unset"), <<>>)
    \/ \E id \in {"c1", "c2"} : StoreGet("Comment", id, GetOpts(<<>>, "unset"), <<>>)
    \/ \E type \in {"Tag", "Post"} : \E scan \in ScanOrders(DOMAIN caches[type]) :
          StoreQuery(type, QueryOpts(<<>>, 0, <<Triple(type, "Post", 1)>>), scan)
    \/ \E type \in StoreTypes : \E id \in DOMAIN caches[type] : StoreInvalidate(type, id)

MismatchInit == ScopeInit({}) /\ CacheInit({}) /\ StoreInit(Fixture)
SpecMismatch == MismatchInit /\ [][MismatchNext]_vars

\* writes and reads of one store and its backend
StoreNext ==
    \/ \E fields \in PostUpdaters, optimistic \in BOOLEAN, stamp \in Stamps :
          StoreCreate("Post", fields, optimistic, stamp)
    \/ DbCreateResolves
    \/ \E id \in IdsOf("Post") : StoreGet("Post", id, GetOpts(<<>>, "unset"), <<>>)
    \/ \E id \in DOMAIN caches["Post"] : StoreInvalidate("Post", id)

StoreOnlyInit == ScopeInit({}) /\ CacheInit({}) /\ StoreInit(NoDocs)
SpecStore == StoreOnlyInit /\ [][StoreNext]_vars

\* reads, queries with a limit and creates of comments, one call at a time
CommentWheres ==
    {<<>>} \cup {<<[field |-> "post", op |-> "==", value |-> id]>> : id \in {"p1", "p2"}}
CommentUpdater == [text |-> Str("z"), post |-> Obj([id |-> Str("p1")])]
AgnosticNext ==
    \/ /\ creating = Idle
       /\ \E id \in IdsOf("Comment") :
             StoreGet("Comment", id, GetOpts(<<>>, "unset"), <<>>)
    \/ /\ creating = Idle
       /\ \E where \in CommentWheres, limit \in {0, 1} :
             \E scan \in ScanOrders(DOMAIN caches["Comment"]) :
                StoreQuery("Comment", QueryOpts(where, limit, <<>>), scan)
    \/ \E optimistic \in BOOLEAN : StoreCreate("Comment", CommentUpdater, optimistic, 1)
    \/ DbCreateResolves

AgnosticInit == ScopeInit({}) /\ CacheInit({}) /\ StoreInit(Fixture)
SpecAgnostic == AgnosticInit /\ [][AgnosticNext]_vars

\* creates, updates and removes of posts that listeners watch, with reads under
\* every cache option and a backend that may reject an update or a remove
MutateCreates == {[title |-> Str("new")]}
MutateUpdaters ==
    { [id |-> Str("p1"), title |-> Str("edit")],
      [id |-> Str("p1"), title |-> Null],
      [title |-> Str("edit")] }
MutateIds == {"p1", GeneratedId("Post", 1)}
CacheOpts == {"unset", "local", "none"}
MutateNext ==
    \/ \E fields \in MutateCreates, optimistic \in BOOLEAN :
          StoreCreate("Post", fields, optimistic, 1)
    \/ DbCreateResolves
    \/ \E fields \in MutateUpdaters, optimistic \in BOOLEAN :
          StoreUpdate("Post", fields, optimistic, 1)
    \/ DbUpdateResolves
    \/ DbRejects
    \/ \E id \in MutateIds, optimistic \in BOOLEAN : StoreRemove("Post", id, optimistic)
    \/ DbRemoveResolves
    \/ \E id \in MutateIds, cacheOpt \in CacheOpts :
          StoreGet("Post", id, GetOpts(<<>>, cacheOpt), <<>>)

MutateInit ==
    ScopeInit({}) /\ CacheInit({}) /\ StoreState(Fixture) /\ storeListeners = PostListeners
SpecMutate == MutateInit /\ [][MutateNext]_vars

\* the calls of SpecMutate that succeed: no rejection by the backend and
\* no updater without an id
CoherentNext ==
    \/ \E fields \in MutateCreates, optimistic \in BOOLEAN :
          StoreCreate("Post", fields, optimistic, 1)
    \/ DbCreateResolves
    \/ \E fields \in {u \in MutateUpdaters : ~commonUpdateThrows(u)},
          optimistic \in BOOLEAN :
          StoreUpdate("Post", fields, optimistic, 1)
    \/ DbUpdateResolves
    \/ \E id \in MutateIds, optimistic \in BOOLEAN : StoreRemove("Post", id, optimistic)
    \/ DbRemoveResolves
    \/ \E id \in MutateIds :
          StoreGet("Post", id, GetOpts(<<>>, "unset"), <<>>)

SpecCoherent == MutateInit /\ [][CoherentNext]_vars

\* reads that walk the edges between the stores of posts and comments
Scans == IF queryLoaded = {} THEN {<<>>} ELSE ScanOrders(DOMAIN caches["Comment"])
WalkNext ==
    \/ \E id \in {"p1", "p2"}, edges \in EdgeSelections, scan \in Scans :
          StoreGet("Post", id, GetOpts(edges, "unset"), scan)
    \/ \E id \in {"c1", "c2"}, edges \in {<<>>, <<Bare("Comment")>>} :
          StoreGet("Comment", id, GetOpts(edges, "unset"), <<>>)
    \/ \E id \in {"p1", "p2"}, scan \in Scans :
          StoreQuery("Comment",
                     QueryOpts(<<[field |-> "post", op |-> "==", value |-> id]>>, 0,
                               <<Triple("Comment", "Post", 1)>>),
                     scan)
    \/ \E type \in StoreTypes : \E id \in DOMAIN caches[type] : StoreInvalidate(type, id)

WalkInit == ScopeInit({}) /\ CacheInit({}) /\ StoreInit(Fixture)
SpecWalk == WalkInit /\ [][WalkNext]_vars

(***************************************************************************)
(* Properties of the provider scopes.                                      *)
(***************************************************************************)
KeyOf(kid) == CHOOSE k \in Keys : k.id = kid

\* the scope chain of s: s itself first, then its ancestors in order
RECURSIVE Chain(_)
Chain(s) == IF s = NoScope THEN <<>> ELSE <<s>> \o Chain(parentScope[s])

\* positions of the chain of s whose scope holds a registration for kid
RegisteredIn(s, kid) ==
    {i \in DOMAIN Chain(s) : providerMap[Chain(s)[i]][kid] # NoProvider}

\* C1: use(key) on a scope returns the value produced by the provider of the
\* nearest scope of its chain that has a registration for the key (the scope
\* itself first), so a child's value wins over its parent's and the key's
\* default is not returned while the chain holds a registration.
C1_NearestRegistrationWins ==
    lastCall.op = "use" =>
        LET reg == RegisteredIn(lastCall.scope, lastCall.key)
        IN  reg # {} =>
              LET nearest == CHOOSE i \in reg : \A j \in reg : i <= j
                  owner == Chain(lastCall.scope)[nearest]
              IN  lastCall.result =
                      Returned(providerMap[owner][lastCall.key].returns)

\* a use on the innermost scope of a key with a default, registered there with
\* one value and in the root scope with another
C1_Witness ==
    /\ lastCall.op = "use" /\ lastCall.scope = "modal" /\ lastCall.key = 1
    /\ providerMap["modal"][1] = Provider("dark")
    /\ providerMap["app"][1] = Provider("light")
    /\ lastCall.result = Returned("dark")

\* C2: with no registration anywhere in the scope chain, use(k) returns the
\* key's configured default exactly, and throws when the key has no default.
C2_DefaultOrThrow ==
    (lastCall.op = "use" /\ RegisteredIn(lastCall.scope, lastCall.key) = {}) =>
        LET key == KeyOf(lastCall.key)
        IN  IF key.defaultValue # Undefined
            THEN lastCall.result = Returned(key.defaultValue)
            ELSE lastCall.result.kind = "throw"

\* the registrations made on (s, kid) whose own unsubscribe function was never called
ActiveRegistrations(s, kid) ==
    {u \in DOMAIN unlisteners :
        /\ unlisteners[u].scope = s /\ unlisteners[u].key = kid
        /\ unlisteners[u].listenerKey \notin unsubscribed}

InvokedKeys == {lastCall.calls[i].listenerKey : i \in DOMAIN lastCall.calls}

\* C9: provideValue(key, v) invokes every listener registered for key on the
\* scope with v before it returns, and while each listener runs use(key) on
\* the scope already returns v.
C9_ListenersNotifiedAfterSet ==
    lastCall.op = "provideValue" =>
        /\ \A u \in ActiveRegistrations(lastCall.scope, lastCall.key) :
               unlisteners[u].listenerKey \in InvokedKeys
        /\ \A i \in DOMAIN lastCall.calls :
               /\ lastCall.calls[i].value = lastCall.value
               /\ lastCall.calls[i].seen = Returned(lastCall.value)

\* C10: after the unsubscribe function of one of n >= 2 registrations of a key
\* has been called, each of the other registrations is still invoked by every
\* later provideValue for the key.
C10_OthersStillInvoked ==
    lastCall.op = "provideValue" =>
        \A u \in ActiveRegistrations(lastCall.scope, lastCall.key) :
            (\E w \in DOMAIN unlisteners :
                /\ unlisteners[w].scope = lastCall.scope
                /\ unlisteners[w].key = lastCall.key
                /\ unlisteners[w].listenerKey \in unsubscribed)
            => unlisteners[u].listenerKey \in InvokedKeys

(***************************************************************************)
(* Properties of the in-memory cache.                                      *)
(***************************************************************************)
\* the step before this get call was a get of the same id whose fallback
\* returned a value that is not null
AfterLoadingGet ==
    /\ lastDone.kind \in {"get", "fallback"}
    /\ Len(lastDone.after) = 4
    /\ lastDone.after[1] = "get" /\ lastDone.after[2] = lastDone.id
    /\ lastDone.after[3] /\ lastDone.after[4] # Null

\* C3: when get(id, fallback) has returned the non-null value of its fallback
\* for a missing id, has(id) is true, and a get of the same id called next
\* returns the same entity from the cache without invoking its fallback.
C3_GetPopulatesOnce ==
    /\ (lastDone.kind = "get" /\ lastDone.fellBack /\ lastDone.result # Null) =>
           /\ has(cache, lastDone.id)
           /\ Existing(cache, lastDone.id) = lastDone.result
    /\ AfterLoadingGet =>
           /\ lastDone.kind = "get" /\ ~lastDone.fellBack
           /\ lastDone.result = lastDone.after[4]

\* the second of two gets in sequence has been served
C3_Witness ==
    /\ AfterLoadingGet
    /\ lastDone.kind = "get" /\ ~lastDone.fellBack
    /\ lastDone.result = Entity("u1", "Ann", 1)

\* C4: put(id, 'add', v) invokes every listener registered for id and every
\* listener registered for "*", cached id or not, the listeners of id first.
C4_AddNotifiesIdThenWildcard ==
    (lastDone.kind = "put" /\ lastDone.op = "add") =>
        LET forId == ListenersOf(cacheListeners, lastDone.id)
            forAll == ListenersOf(cacheListeners, Wildcard)
            expect(cb) == [callback |-> cb, id |-> lastDone.id, op |-> "add"]
        IN  /\ Len(lastDone.fired) = Len(forId) + Len(forAll)
            /\ \A i \in DOMAIN forId : lastDone.fired[i] = expect(forId[i])
            /\ \A j \in DOMAIN forAll :
                   lastDone.fired[Len(forId) + j] = expect(forAll[j])

\* an add of an id that was cached, with two listeners of the id and two of "*"
C4_Witness ==
    /\ lastDone.kind = "put" /\ lastDone.op = "add" /\ lastDone.id = "u1"
    /\ lastDone.inCache # NotCached
    /\ Len(ListenersOf(cacheListeners, "u1")) = 2
    /\ Len(ListenersOf(cacheListeners, Wildcard)) = 2
    /\ Len(lastDone.fired) = 4

\* the two objects have the same properties with the same values, except updatedAt
OnlyUpdatedAtDiffers(a, b) ==
    /\ a # b
    /\ \A k \in (DOMAIN a \cup DOMAIN b) \ {"updatedAt"} : Field(a, k) = Field(b, k)

\* C5: put(id, 'update', v) on a cached id whose cached value differs from v
\* only in the updatedAt field invokes no listener, and the entry becomes v.
C5_TouchOnlyUpdateIsSilent ==
    (/\ lastDone.kind = "put" /\ lastDone.op = "update"
     /\ lastDone.inCache # NotCached
     /\ OnlyUpdatedAtDiffers(lastDone.inCache, lastDone.result)) =>
        /\ lastDone.fired = <<>>
        /\ Existing(cache, lastDone.id) = lastDone.result

(***************************************************************************)
(* Properties of the data store facade.                                    *)
(***************************************************************************)
\* two values are of the same kind and equal
SameValue(a, b) == a.t = b.t /\ a = b

\* the last call is a get that read the backend's document of the last create
FreshRead ==
    /\ lastStore.kind = "get" /\ ~lastStore.hit
    /\ lastCreate.type = lastStore.type /\ lastCreate.id = lastStore.id

\* the supplied value of id, createdAt or updatedAt, or the generated one
Kept(supplied, key, generated) ==
    IF Nullish(Field(supplied, key)) THEN generated ELSE supplied[key]

\* the entity read has the id and the timestamps of the create
StampsKept ==
    LET r == lastStore.result
        f == lastCreate.supplied
    IN  /\ r # Null
        /\ SameValue(r.id, Kept(f, "id", Str(GeneratedId(lastCreate.type, lastCreate.uuid))))
        /\ SameValue(Field(r, "createdAt"), Kept(f, "createdAt", Num(lastCreate.now)))
        /\ SameValue(Field(r, "updatedAt"), Kept(f, "updatedAt", Num(lastCreate.now)))

OwnFields(supplied) == DOMAIN supplied \ {"id", "createdAt", "updatedAt"}

\* C6 as stated: create(fields), the cache entry cleared, then get(id) returns
\* an entity whose id, createdAt, updatedAt and every supplied field equal
\* what was supplied; a supplied id, createdAt or updatedAt is kept and an
\* absent one is generated.
C6_RoundTrip ==
    FreshRead =>
        /\ StampsKept
        /\ \A k \in OwnFields(lastCreate.supplied) :
              IF Nullish(lastCreate.supplied[k])
              THEN Nullish(Field(lastStore.result, k))
              ELSE SameValue(Field(lastStore.result, k), lastCreate.supplied[k])

\* C6 as amended: the same for the scalar fields the schema declares; a
\* reference supplied as {id: e} comes back as the stored id e, and a field
\* the schema does not declare or that was supplied as null is not returned.
C6_RoundTripStored ==
    FreshRead =>
        /\ StampsKept
        /\ \A k \in OwnFields(lastCreate.supplied) :
              LET v == lastCreate.supplied[k]
              IN  IF Nullish(v) \/ k \notin SchemaKeys(getSchema(lastCreate.type))
                  THEN k \notin DOMAIN lastStore.result
                  ELSE IF v.t = "object"
                  THEN SameValue(Field(lastStore.result, k), v.v.id)
                  ELSE SameValue(Field(lastStore.result, k), v)

\* the post written with a supplied id, createdAt and parent has been read
\* back from the backend
C6_Witness ==
    /\ FreshRead
    /\ lastCreate.supplied = [id |-> Str("p2"), createdAt |-> Num(0),
                              title |-> Str("edit"),
                              parent |-> Obj([id |-> Str("p1")])]
    /\ lastStore.result # Null
    /\ lastStore.result.createdAt = Num(0)
    /\ lastStore.result.title = Str("edit")

\* what the store of a type returns for an id when no edge is walked
Unwalked(entityType, id) == cacheGet([db |-> db, caches |-> caches], entityType, id)

\* entity e of a type is walked n levels deep along the references from
\* `source` to `target`, and its other references are as stored
RECURSIVE Materialized(_, _, _, _, _)
Materialized(e, entityType, source, target, n) ==
    LET plain == Unwalked(entityType, e.id.v)
        schema == getSchema(entityType)
    IN  \A i \in DOMAIN schema :
            LET key == schema[i].key
                type == IF isArrayType(schema[i].type)
                        THEN getElementType(schema[i].type) ELSE schema[i].type
                selected == /\ entityType = source /\ type.kind # "scalar"
                            /\ getModelClass(type) = target /\ n > 0
            IN  IF isModelRefType(type) /\ selected /\ ~Nullish(Field(plain, key))
                THEN IF Unwalked(target, plain[key].v) = Null
                     THEN Field(e, key) = Null
                     ELSE /\ Field(e, key).t = "object"
                          /\ Field(e, key).v.id = plain[key]
                          /\ Materialized(Field(e, key).v, target, source, target, n - 1)
                ELSE IF isInverseModelRefType(type)
                THEN selected \/ key \notin DOMAIN e
                ELSE SameValue(Field(e, key), Field(plain, key))

\* C7: a get with the selector (S, T, n) returns the entity with its T-typed
\* references loaded along at most n levels from S and every deeper or other
\* reference left as the stored id; with (A, B, 1) the B entities loaded from
\* A keep their own B-typed references as ids.
C7_DepthBounded ==
    (/\ lastStore.kind = "get" /\ lastStore.result # Null
     /\ Len(lastStore.edges) = 1 /\ lastStore.edges[1].isArray) =>
        Materialized(lastStore.result, lastStore.type, lastStore.edges[1].source,
                     lastStore.edges[1].target, lastStore.edges[1].depth)

\* post p1 read with (Post, Comment, 1): its top comment c2 is loaded and
\* c2's reply-to reference is still the id c1
C7_Witness ==
    /\ lastStore.kind = "get" /\ lastStore.id = "p1"
    /\ lastStore.edges = <<Triple("Post", "Comment", 1)>>
    /\ lastStore.result.top.t = "object"
    /\ lastStore.result.top.v.id = Str("c2")
    /\ lastStore.result.top.v.replyTo = Str("c1")
    /\ lastStore.result.parent = Str("p2")

\* the ids of the stored comments that reference a post, in document order
StoredCommentsOf(id) ==
    SelectSeq(IdsInOrder, LAMBDA c :
        /\ c \in DOMAIN db["Comment"]
        /\ Field(db["Comment"][c], "post") = Str(id))

\* C8: walking the inverse fields of a post issues a query on comments
\* filtered on post == the post's id; the array-typed field comments gets the
\* whole result list, the field latest its first element or nothing; a query
\* answered by the backend returns every stored comment of the post.
C8_InverseWalk ==
    (/\ lastStore.kind = "get" /\ lastStore.type = "Post" /\ lastStore.result # Null
     /\ lastStore.edges \in {<<Bare("Comment")>>, <<Triple("Post", "Comment", 1)>>}) =>
        LET r == lastStore.result
            where == <<[field |-> "post", op |-> "==", value |-> lastStore.id]>>
        IN  /\ lastStore.queries # {}
            /\ \A q \in lastStore.queries :
                  /\ q.type = "Comment" /\ q.where = where
                  /\ ~q.fromCache => q.results = StoredCommentsOf(lastStore.id)
                  /\ Field(r, "comments").t = "array"
                  /\ Len(r.comments.v) = Len(q.results)
                  /\ \A j \in DOMAIN q.results :
                        /\ r.comments.v[j].t = "object"
                        /\ r.comments.v[j].v.id = Str(q.results[j])
                        /\ r.comments.v[j].v.post = Str(lastStore.id)
                  /\ IF q.results = <<>> THEN Field(r, "latest") = JsUndefined
                     ELSE /\ Field(r, "latest").t = "object"
                          /\ r.latest.v.id = Str(q.results[1])

\* post p1, which two stored comments reference, read with [Comment]
C8_Witness ==
    /\ lastStore.kind = "get" /\ lastStore.id = "p1"
    /\ lastStore.edges = <<Bare("Comment")>>
    /\ lastStore.result.comments.t = "array"
    /\ Len(lastStore.result.comments.v) = 2
    /\ lastStore.result.comments.v[1].v.id = Str("c1")
    /\ lastStore.result.comments.v[2].v.id = Str("c2")
    /\ lastStore.result.latest.v.id = Str("c1")

(***************************************************************************)
(* Properties of the cache's queries.                                      *)
(***************************************************************************)
\* the copies of the cached entries that satisfy a filter list
CachedMatches(where) ==
    {ShallowCopy(cache[id]) : id \in {i \in DOMAIN cache : toPredicate(where, cache[i])}}

Elements(seq) == {seq[i] : i \in DOMAIN seq}

\* C11: a cache query whose filter list is that of an earlier completed query
\* returns the cached entries that satisfy its filters and does not invoke its
\* fallback, whatever its ordering and limit; any other query invokes its
\* fallback once, puts every returned entity under 'load' in order, marks the
\* fingerprint of its filter list loaded and returns what the fallback returned.
C11_QueryFingerprint ==
    lastDone.kind = "query" =>
        IF lastDone.seen
        THEN /\ ~lastDone.fellBack /\ lastDone.fnCalls = 0 /\ lastDone.puts = <<>>
             /\ Elements(lastDone.result) = CachedMatches(lastDone.query.where)
             /\ Len(lastDone.result) = Cardinality(CachedMatches(lastDone.query.where))
        ELSE /\ lastDone.fellBack /\ lastDone.fnCalls = 1
             /\ Len(lastDone.puts) = Len(lastDone.result)
             /\ \A i \in DOMAIN lastDone.result :
                   /\ lastDone.puts[i].op = "load"
                   /\ lastDone.puts[i].id = lastDone.result[i].id.v
                   /\ lastDone.puts[i].value = lastDone.result[i]
                   /\ lastDone.puts[i].fired = <<>>
             /\ [where |-> lastDone.query.where] \in cacheQueryLoaded

\* a query with a limit and an ordering, after a completed query with the same
\* filter list and neither, returns the two cached entries
C11_Witness ==
    /\ lastDone.kind = "query" /\ lastDone.seen /\ ~lastDone.fellBack
    /\ lastDone.query.limit = 1 /\ lastDone.query.order # <<>>
    /\ lastDone.query \notin queriesDone
    /\ Len(lastDone.result) = 2

(***************************************************************************)
(* Properties of the data store facade with and without a cache.           *)
(***************************************************************************)
\* what the store built on noCache() returns for the last call
WithoutCache ==
    IF lastStore.kind = "get"
    THEN get(noCache(Stores(<<>>)), lastStore.type, lastStore.id,
             GetOpts(lastStore.edges, lastStore.cache)).value
    ELSE query(noCache(Stores(<<>>)), lastStore.type, lastStore.query).value

\* C12: a get returns the value, and a query the entities (compared without
\* regard to their order), that the store built on the no-cache variant
\* returns for the same call on the same backend.
C12_CacheAgnostic ==
    /\ lastStore.kind = "get" => lastStore.result = WithoutCache
    /\ lastStore.kind = "query" => Elements(lastStore.result) = Elements(WithoutCache)

(***************************************************************************)
(* Properties of the facade's reads and mutations.                         *)
(***************************************************************************)
\* C13: a get of an id that is in the cache does not call the backend's get and
\* returns the cached copy, whatever opts.cache is ('local', 'none' or unset)
C13_CacheFirst ==
    (lastStore.kind = "get" /\ lastStore.cached # NotCached) =>
        /\ lastStore.cache \in CacheOpts
        /\ <<lastStore.type, lastStore.id>> \notin lastStore.fetched
        /\ lastStore.edges = <<>> => lastStore.result = ShallowCopy(lastStore.cached)
\* a get with cache 'none' of a cached id whose backend document reads otherwise
C13_Witness ==
    /\ lastStore.kind = "get" /\ lastStore.cache = "none"
    /\ lastStore.cached # NotCached
    /\ lastStore.result = lastStore.cached
    /\ dbGet(db, lastStore.type, lastStore.id) # lastStore.cached

\* the callbacks a call's cache writes invoked, in order
RECURSIVE Fired(_)
Fired(trace) == IF trace = <<>> THEN <<>> ELSE Head(trace).fired \o Fired(Tail(trace))
\* the cache writes of a call: its puts and removes
IsWrite(event) == event.ev = "cache" /\ event.op \in {"add", "update", "load", "remove"}
Writes(trace) == SelectSeq(trace, IsWrite)
\* the place of the backend's answer among the events of a call
BackendAt(trace) == CHOOSE i \in DOMAIN trace : trace[i].ev = "backend"
Heard(type, id, op) == trigger(storeListeners[type], id, op)

\* C14: an optimistic create puts the placeholder under 'add', announced with
\* 'add', before the backend's create completes and the backend's value under
\* 'update' after; a create without optimistic writes nothing before the
\* backend succeeds and then puts its value under 'add'; either way every
\* listener of the new id hears 'add' exactly once
CreateCalled ==
    creating = Idle /\ creating' # Idle /\ creating'.pc = "db.create"
CreateSettled ==
    creating # Idle /\ creating.pc = "db.create" /\ creating' = Idle
C14_CreateTags ==
    [][/\ CreateCalled =>
             LET type == creating'.type
                 id == creating'.value.id.v
             IN  IF creating'.optimistic
                 THEN /\ creating'.trace =
                            <<CacheEvent("add", id, creating'.value,
                                         Heard(type, id, "add"))>>
                      /\ caches'[type][id] = ShallowCopy(creating'.value)
                 ELSE creating'.trace = <<>> /\ caches' = caches
       /\ CreateSettled =>
             LET trace == lastStore'.trace
                 at == BackendAt(trace)
                 id == lastStore'.id
                 adds == SelectSeq(Fired(trace), LAMBDA call : call.op = "add")
             IN  /\ lastStore'.kind = "create"
                 /\ trace[at] = BackendEvent("create", id, TRUE)
                 /\ adds = Heard(creating.type, id, "add")
                 /\ caches'[creating.type][id] = ShallowCopy(lastStore'.result)
                 /\ IF creating.optimistic
                    THEN /\ at = 2 /\ Len(trace) = 3
                         /\ trace[1].op = "add" /\ trace[1].fired = adds
                         /\ trace[3].op = "update"
                         /\ trace[3].value = lastStore'.result
                    ELSE /\ at = 1 /\ Len(trace) = 2
                         /\ trace[2].op = "add" /\ trace[2].fired = adds
                         /\ trace[2].value = lastStore'.result]_vars
\* an optimistic create has completed and a listener heard its 'add'
C14_Witness ==
    /\ lastStore.kind = "create" /\ lastStore.optimistic
    /\ lastStore.trace[1].fired # <<>>
    /\ lastStore.trace[3].op = "update" /\ lastStore.trace[3].value = lastStore.result

\* m is the shallow merge of the updater `value` into `cached`
IsShallowMerge(m, cached, value) ==
    /\ DOMAIN m = DOMAIN cached \cup DOMAIN value
    /\ \A k \in DOMAIN value : m[k] = value[k]
    /\ \A k \in DOMAIN cached \ DOMAIN value : m[k] = cached[k]

\* C15: an optimistic update of a cached id first puts the shallow merge of the
\* cached value with the updater, then, after the backend has answered, the
\* value the backend returned; that is the last write of the call, and the
\* entry holds it until another operation writes
C15_MergeThenBackend ==
    /\ (/\ creating # Idle /\ creating.pc = "db.update"
        /\ creating.optimistic /\ creating.cached # NotCached) =>
          LET writes == Writes(creating.trace)
              id == IdKey(creating.value)
          IN  /\ Len(writes) = 1 /\ writes[1].op = "update"
              /\ IsShallowMerge(writes[1].value, creating.cached, creating.value)
              /\ caches[creating.type][id] = writes[1].value
    /\ (/\ lastStore.kind = "update" /\ lastStore.error = ""
        /\ lastStore.optimistic /\ lastStore.cached # NotCached) =>
          LET trace == lastStore.trace
              writes == Writes(trace)
              at == BackendAt(trace)
          IN  /\ Len(writes) = 2
              /\ trace[at - 1] = writes[1] /\ trace[at + 1] = writes[2]
              /\ at + 1 = Len(trace)
              /\ writes[1].op = "update" /\ writes[2].op = "update"
              /\ IsShallowMerge(writes[1].value, lastStore.cached,
                                commonUpdateLogic(lastStore.supplied, 1))
              /\ writes[2].value = lastStore.result
              /\ creating = Idle =>
                    caches[lastStore.type][lastStore.id] = lastStore.result
\* an optimistic update of a cached post has completed, and the backend's
\* value is not the merge that was put first
C15_Witness ==
    /\ lastStore.kind = "update" /\ lastStore.error = ""
    /\ lastStore.optimistic /\ lastStore.cached # NotCached
    /\ Writes(lastStore.trace)[1].value # lastStore.result
    /\ caches[lastStore.type][lastStore.id] = lastStore.result

\* C16: when the backend rejects an update that was written ahead to the cache,
\* the call fails with the backend's error, the entry keeps the merged value
\* and the call writes and announces nothing after the rejection
C16_FailedUpdateKeepsMerge ==
    (/\ lastStore.kind = "update" /\ lastStore.error # MustHaveId /\ lastStore.error # ""
     /\ lastStore.optimistic /\ lastStore.cached # NotCached) =>
        LET trace == lastStore.trace
            writes == Writes(trace)
        IN  /\ lastStore.error = BackendError
            /\ trace[Len(trace)] = BackendEvent("update", lastStore.id, FALSE)
            /\ Len(writes) = 1 /\ writes[1] = trace[Len(trace) - 1]
            /\ IsShallowMerge(writes[1].value, lastStore.cached,
                              commonUpdateLogic(lastStore.supplied, 1))
            /\ creating = Idle =>
                  caches[lastStore.type][lastStore.id] = writes[1].value
\* an update was rejected and the cache holds the merge, which neither the
\* value cached before nor the backend's document equals
C16_Witness ==
    /\ lastStore.kind = "update" /\ lastStore.error = BackendError
    /\ lastStore.optimistic /\ lastStore.cached # NotCached
    /\ creating = Idle
    /\ caches[lastStore.type][lastStore.id] # lastStore.cached
    /\ caches[lastStore.type][lastStore.id] # dbGet(db, lastStore.type, lastStore.id)
    /\ Fired(lastStore.trace) # <<>>

\* C17: an optimistic remove evicts the id (announcing 'remove' if it was
\* cached) when it is called, before the backend's delete settles, and a
\* rejection changes nothing in the cache; a remove without optimistic leaves
\* the cache alone until the backend's delete has succeeded, evicts then, and
\* on a rejection writes nothing and announces nothing
RemoveCalled ==
    creating = Idle /\ creating' # Idle /\ creating'.pc = "db.remove"
RemoveSettled ==
    creating # Idle /\ creating.pc = "db.remove" /\ creating' = Idle
C17_RemoveOrder ==
    [][/\ RemoveCalled =>
             LET type == creating'.type
                 id == creating'.value.id.v
             IN  IF creating'.optimistic
                 THEN /\ ~has(caches'[type], id)
                      /\ creating'.trace =
                            <<CacheEvent("remove", id, Null,
                                         IF has(caches[type], id)
                                         THEN Heard(type, id, "remove") ELSE <<>>)>>
                 ELSE caches' = caches /\ creating'.trace = <<>>
       /\ RemoveSettled =>
             LET type == creating.type
                 id == creating.value.id.v
                 trace == lastStore'.trace
             IN  /\ lastStore'.kind = "remove"
                 /\ IF lastStore'.error # ""
                    THEN /\ caches' = caches /\ db' = db
                         /\ trace = Append(creating.trace,
                                           BackendEvent("remove", id, FALSE))
                    ELSE /\ Len(Writes(trace)) = 1
                         /\ IF creating.optimistic
                            THEN /\ trace[Len(trace)] = BackendEvent("remove", id, TRUE)
                                 /\ caches' = caches
                            ELSE /\ ~has(caches'[type], id)
                                 /\ trace = <<BackendEvent("remove", id, TRUE),
                                           CacheEvent("remove", id, Null,
                                                      IF has(caches[type], id)
                                                      THEN Heard(type, id, "remove")
                                                      ELSE <<>>)>>]_vars
\* a remove without optimistic of a cached post was rejected: the entry is
\* still cached and no listener was called
C17_Witness ==
    /\ lastStore.kind = "remove" /\ lastStore.error = BackendError
    /\ ~lastStore.optimistic /\ lastStore.cached # NotCached
    /\ creating = Idle
    /\ Existing(caches[lastStore.type], lastStore.id) = lastStore.cached
    /\ Fired(lastStore.trace) = <<>>
    /\ Heard(lastStore.type, lastStore.id, "remove") # <<>>

\* C18: an update whose updater has no id fails with 'Must have an ID to
\* update' having read and written no cache entry, called no listener and
\* made no backend call: the cache, the backend and the pending call are as
\* they were
C18_UpdateNeedsId ==
    [][(/\ lastStore' # lastStore /\ lastStore'.kind = "update"
        /\ Nullish(Field(lastStore'.supplied, "id"))) =>
          /\ lastStore'.error = MustHaveId
          /\ lastStore'.trace = <<>>
          /\ UNCHANGED <<db, caches, queryLoaded, creating, storeListeners>>]_vars
\* an optimistic update without an id has failed while posts were cached
C18_Witness ==
    /\ lastStore.kind = "update" /\ lastStore.error = MustHaveId
    /\ lastStore.optimistic /\ lastStore.trace = <<>>
    /\ "id" \notin DOMAIN lastStore.supplied
    /\ DOMAIN caches["Post"] # {}

(***************************************************************************)
(* Properties of the depth counters of a traversal.                        *)
(***************************************************************************)
\* the sum of the remaining-depth counters of a list of triples
RECURSIVE SumOfDepths(_)
SumOfDepths(edges) ==
    IF edges = <<>> THEN 0 ELSE Head(edges).depth + SumOfDepths(Tail(edges))
OnlyTriples(edges) == \A i \in DOMAIN edges : edges[i].isArray

\* C19: a get or a query whose selectors are all depth-bounded triples
\* completes, over posts and comments that reference each other in cycles,
\* and its data-store calls nest at most as deep as the sum of the counters
C19_NestingBounded ==
    (lastStore.kind \in {"get", "query"} /\ OnlyTriples(lastStore.edges)) =>
        lastStore.nest <= SumOfDepths(lastStore.edges)
\* p1 read with (Post, Comment, 1) and (Comment, Post, 1): its comments were
\* loaded, and from them the post again, two calls deep
C19_Witness ==
    /\ lastStore.kind = "get" /\ lastStore.id = "p1"
    /\ lastStore.edges = <<Triple("Post", "Comment", 1), Triple("Comment", "Post", 1)>>
    /\ lastStore.nest = 2
    /\ lastStore.result.top.t = "object"
    /\ lastStore.result.top.v.post.t = "object"
    /\ lastStore.result.top.v.post.v.id = Str("p1")
    /\ lastStore.result.top.v.post.v.top = Str("c2")

\* the fields of an entity type that lead to a model class
FieldsTo(entityType, target) ==
    LET schema == getSchema(entityType)
    IN  {schema[i].key : i \in {j \in DOMAIN schema :
            LET type == IF isArrayType(schema[j].type)
                        THEN getElementType(schema[j].type) ELSE schema[j].type
            IN  /\ isModelRefType(type) \/ isInverseModelRefType(type)
                /\ getModelClass(type) = target}}
\* a field that was walked holds entities, no longer the stored id
Walked(value) ==
    \/ value.t = "object"
    \/ value.t = "array" /\ \A j \in DOMAIN value.v : value.v[j].t = "object"

\* C20: no get and no query writes to the selector list it was passed; a
\* counter consumed for one field is whole again for every other field of the
\* entity that leads to the same type, and for every entity of a batch: read
\* with (Post, Comment, 1), all of a post's fields that lead to comments are
\* loaded, and with (Comment, Post, 1) added every comment of the batch has its
\* post loaded; a call made later with the list returns what the first returned
C20_CountersPrivate ==
    /\ lastStore.kind \in {"get", "query"} => ~lastStore.modified
    /\ (/\ lastStore.kind = "get" /\ lastStore.type = "Post" /\ lastStore.result # Null
        /\ lastStore.edges # <<>>
        /\ lastStore.edges[1] = Triple("Post", "Comment", 1)) =>
          LET r == lastStore.result
          IN  /\ \A key \in FieldsTo("Post", "Comment") :
                    (key \in DOMAIN Unwalked("Post", lastStore.id) \/ key = "comments")
                        => Walked(Field(r, key))
              /\ Len(lastStore.edges) = 2 =>
                    \A j \in DOMAIN r.comments.v :
                        \A key \in FieldsTo("Comment", "Post") :
                            Walked(Field(r.comments.v[j].v, key))
    /\ (lastStore.kind = "query" /\ lastStore.edges # <<>>) =>
          \A j \in DOMAIN lastStore.result :
              \A key \in FieldsTo(lastStore.type, lastStore.edges[1].target) :
                  Walked(Field(lastStore.result[j], key))
\* p1 read with (Post, Comment, 1) and (Comment, Post, 1): top is loaded, and
\* so are both comments and the post of each of them
C20_Witness ==
    /\ lastStore.kind = "get" /\ lastStore.id = "p1" /\ ~lastStore.modified
    /\ lastStore.edges = <<Triple("Post", "Comment", 1), Triple("Comment", "Post", 1)>>
    /\ lastStore.result.top.t = "object"
    /\ Len(lastStore.result.comments.v) = 2
    /\ \A j \in 1..2 : lastStore.result.comments.v[j].v.post.t = "object"
    /\ lastStore.result.latest.t = "object"

(***************************************************************************)
(* Properties of the cache's removal, warm-up and failing fallbacks.       *)
(***************************************************************************)
\* the listeners registered on id, then those registered on "*"
Registered(id) == ListenersOf(cacheListeners, id) \o ListenersOf(cacheListeners, Wildcard)

\* C24: remove(id) leaves no entry for id; when an entry existed every listener
\* of id and of "*" is called once with (id, 'remove'), and when none existed
\* nobody is called
C24_RemoveNotifies ==
    [][(lastDone' # lastDone /\ lastDone'.kind = "remove") =>
          LET id == lastDone'.id
              fired == lastDone'.fired
          IN  /\ id \notin DOMAIN cache'
              /\ \A k \in DOMAIN cache \ {id} : k \in DOMAIN cache' /\ cache'[k] = cache[k]
              /\ IF id \in DOMAIN cache
                 THEN /\ Len(fired) = Len(Registered(id))
                      /\ \A i \in DOMAIN fired :
                            fired[i] = [callback |-> Registered(id)[i], id |-> id,
                                        op |-> "remove"]
                 ELSE fired = <<>>]_vars
\* a cached id with a listener of its own and one on "*" was removed, and
\* both were called
C24_Witness ==
    /\ lastDone.kind = "remove"
    /\ Len(lastDone.fired) >= 2
    /\ \E i, j \in DOMAIN lastDone.fired :
          /\ lastDone.fired[i].callback = "f" /\ lastDone.fired[j].callback = "g"
    /\ ListenersOf(cacheListeners, lastDone.id) # <<>>
    /\ ListenersOf(cacheListeners, Wildcard) # <<>>

\* C25: a put under 'load', made by a caller or by get for what its fallback
\* returned, calls no listener, whether the id was cached before or not and
\* whatever was cached
C25_LoadSilent ==
    lastDone.op = "load" => lastDone.fired = <<>>
\* a value was put under 'load' over a different cached value of an id that
\* has listeners
C25_Witness ==
    /\ lastDone.op = "load" /\ lastDone.kind = "put"
    /\ lastDone.inCache # NotCached
    /\ ~areValuesEqual(lastDone.inCache, lastDone.result)
    /\ Registered(lastDone.id) # <<>>
    /\ cache[lastDone.id] = lastDone.result

\* C22: when the fallback of a get or of a query throws, the call fails with
\* the fallback's error and leaves the entries, the loaded fingerprints and
\* the listeners as they were, calling none of them
C22_FallbackErrorPropagates ==
    [][(\E c \in callers :
           /\ inflight[c].pc \in {"fn", "queryFn"} /\ inflight'[c] = Idle
           /\ lastDone'.error # "") =>
          /\ lastDone'.error = FnError
          /\ lastDone'.fired = <<>> /\ lastDone'.puts = <<>>
          /\ UNCHANGED <<cache, cacheQueryLoaded, cacheListeners>>]_vars
\* the fallback of a query has thrown with entries cached: its fingerprint is
\* not loaded
C22_Witness ==
    /\ lastDone.kind = "query" /\ lastDone.error = FnError
    /\ keyFor(lastDone.query) \notin cacheQueryLoaded
    /\ cache # <<>>
    /\ cacheQueryLoaded # {}

(***************************************************************************)
(* Properties of failing edge walks.                                       *)
(***************************************************************************)
\* the words an error message may put around the names of two entity types
Fragments == {"", " ", ": ", " -> ", " has no reference to ", NoMatchingEdge,
              NoMatchingEdge \o ": ", "No reference from ", " to "}
\* the message names both entity types of a relationship
NamesRelationship(message, from, to) ==
    \E x, y, z \in Fragments :
        \/ message = x \o from \o y \o to \o z
        \/ message = x \o to \o y \o from \o z

\* C26: a get that walks an inverse field whose target type has no reference
\* back fails, issues no query for the field, and its error names the two
\* entity types of the relationship that was expected
C26_SchemaMismatchNamed ==
    (/\ lastStore.kind = "get" /\ lastStore.type = "Tag"
     /\ lastStore.edges # <<>>) =>
        /\ lastStore.error # ""
        /\ lastStore.queries = {}
        /\ NamesRelationship(lastStore.error, "Post", "Tag")

\* every reference of the entity that leads to the target type is resolved
Resolved(entity, entityType, target) ==
    \A key \in FieldsTo(entityType, target) :
        ~Nullish(Field(Unwalked(entityType, entity.id.v), key))
            => Walked(Field(entity, key))

C27_CoherentAtQuiescence ==
    creating = Idle =>
        \A id \in DOMAIN caches["Post"] :
            /\ id \in DOMAIN db["Post"]
            /\ caches["Post"][id] = dbGet(db, "Post", id)

(***************************************************************************)
(* Properties of the client use(key) and of the reload boundary.           *)
(***************************************************************************)
Mounted(c) == components[c].mounted
\* what scope.use(key) returns now on the scope of mounted component c
Current(c) == use(providerMap, components[c].scope, components[c].key).v
\* the latest render of c returned the value its scope resolves now
ReadsCurrent(c) == Mounted(c) /\ components[c].value = Current(c)
\* the scope of c holds the registration of the key of c itself
OnOwnScope(c) ==
    Mounted(c) /\ providerMap[components[c].scope][components[c].key.id] # NoProvider
\* c resolves its key through the parent fallback
ThroughParent(c) == Mounted(c) /\ ~OnOwnScope(c)

\* C28: a mounted component that called use(key) on the scope on which the
\* values of key are provided is eventually rendered with the current value,
\* whatever the sequence of provided values was.
C28_EventuallyCurrent ==
    \A c \in Components : OnOwnScope(c) ~> ReadsCurrent(c)

\* C30: a component mounted in a child scope that resolves its key through the
\* parent fallback is eventually rendered with the value that the ancestor
\* scope holding the registration was given by provideValue.
C30_ChildFollowsAncestor ==
    \A c \in Components : ThroughParent(c) ~> (ReadsCurrent(c) \/ OnOwnScope(c))

\* c is mounted below the reload boundary: on its scope or on a scope under it
BelowBoundary(c) ==
    /\ Mounted(c)
    /\ reloads.mounted
    /\ (components[c].scope = reloads.scope \/ Below(components[c].scope, reloads.scope))

\* C29: after reload() every mounted component below the reload boundary that
\* called useReloadState(), in the screen scope of ApplyLayout too, is
\* eventually rendered with the incremented reload state.
C29_ReloadReachesComponents ==
    \A c \in Components :
        BelowBoundary(c) ~> (Mounted(c) /\ components[c].value = reloads.current)

\* the value registered for ReloadState on the scope of the reload boundary
ProvidedState == providerMap[reloads.scope][ReloadState.id].returns
\* the step is a call of reload()
ReloadCalled == lastCall'.op = "provideValue" /\ provides' # provides
\* every ReloadState listener of the boundary's scope was called with the new state
Delivered ==
    LET ls == ListenersFor(reloads.scope, ReloadState)
    IN  /\ Len(lastCall'.calls) = Len(ls)
        /\ \A i \in DOMAIN ls :
              /\ lastCall'.calls[i].listenerKey = ls[i][1]
              /\ lastCall'.calls[i].value = ProvidedState'
              /\ lastCall'.calls[i].seen = Returned(ProvidedState')

\* C21: with one reload boundary in a scope, the value provided for
\* ReloadState is 0 after the boundary's first render, grows by exactly 1 on
\* each reload(), which hands it to every ReloadState listener of the scope,
\* and never decreases, across reload() calls and renders of the boundary.
C21_ReloadStateCounts ==
    [][/\ (~reloads.mounted /\ reloads'.mounted) => ProvidedState' = 0
       /\ reloads.mounted =>
             /\ ProvidedState' >= ProvidedState
             /\ ReloadCalled => (ProvidedState' = ProvidedState + 1 /\ Delivered)]_vars

\* reload() was called with a listener registered, and the boundary has been
\* rendered again since, notifying that listener
C21_Witness ==
    /\ reloads.mounted
    /\ ProvidedState = 1
    /\ lastCall.op = "useReloadBoundary"
    /\ provides = MaxProvides
    /\ Len(lastCall.calls) > 0

(***************************************************************************)
(* Properties of overlapping cache calls.                                  *)
(***************************************************************************)
\* caller c called get(id, fn) in this step
GetCalled(c, id) ==
    /\ inflight[c] = Idle
    /\ lastDone'.id = id
    /\ lastDone'.kind \in {"get", "fallback"}
    /\ inflight'[c] # Idle \/ lastDone'.kind = "get"
    /\ \A other \in callers \ {c} : inflight'[other] = inflight[other]
\* the put of caller c's get resumed in this step
GetWrote(c) == inflight[c].pc = "put" /\ inflight[c].kind = "get" /\ inflight'[c] = Idle

\* C31: no single-flight de-duplication.  A get of an id that is not cached
\* invokes its own fallback also while another get of that id awaits its
\* fallback; each get writes its loader's result whatever the cache holds by
\* then, so the entry holds the value written last.
C31_NoSingleFlight ==
    [][\A c \in callers :
          /\ \A id \in CacheIds :
                (GetCalled(c, id) /\ id \notin DOMAIN cache)
                    => (inflight'[c].pc = "fn" /\ inflight'[c].id = id)
          /\ GetWrote(c) => cache'[inflight[c].id] = inflight[c].value]_vars

\* a get that fell back wrote over the different value that an overlapping get
\* of the same id had written
C31_Witness ==
    /\ lastDone.kind = "get"
    /\ lastDone.fellBack
    /\ lastDone.result # Null
    /\ lastDone.inCache # NotCached
    /\ lastDone.inCache # lastDone.result
    /\ cache[lastDone.id] = lastDone.result

\* value differs from the previous content in a field other than updatedAt
\* whose new value is not an object; nothing cached has no field
Differs(previous, value) ==
    \E k \in DOMAIN value \ {"updatedAt"} :
        /\ typeof(value[k]) # "object"
        /\ (previous = NotCached \/ Field(previous, k) # value[k])

\* C32: put(id, 'update', v) invokes the listeners of id and of "*" with
\* 'update' whenever v differs from the previous content of id in a field
\* other than updatedAt whose new value is not an object, also when the field
\* was null or absent before and when id was not cached before.
C32_UpdateAnnounced ==
    (lastDone.kind = "put" /\ lastDone.op = "update"
        /\ Differs(lastDone.inCache, lastDone.result))
    => lastDone.fired = trigger(cacheListeners, lastDone.id, "update")

\* a cached entity as the backend stores it: forward references are the
\* stored ids, no inverse field is filled in
AsStored(entityType, entity) ==
    LET schema == getSchema(entityType)
    IN  \A i \in DOMAIN schema :
            LET type == schema[i].type
                elemType == IF isArrayType(type) THEN getElementType(type) ELSE type
            IN  /\ isModelRefType(elemType) =>
                       Field(entity, schema[i].key) =
                           Field(dbGet(db, entityType, entity.id.v), schema[i].key)
                /\ isInverseModelRefType(elemType) => schema[i].key \notin DOMAIN entity
\* an object that holds a loaded edge
Hydrated(entity) ==
    \E key \in DOMAIN entity :
        \/ entity[key].t = "object"
        \/ entity[key].t = "array" /\ entity[key].v # <<>>

\* C33: whatever get and query calls with edge selectors have done, their
\* unawaited cache writes included, every cached entity keeps its forward
\* references as the stored ids and has no inverse field filled in, and a
\* get without edges returns an entity with its references as ids
C33_CacheKeepsIds ==
    /\ \A type \in DOMAIN held : \A id \in DOMAIN held[type] :
           AsStored(type, heap[held[type][id]])
    /\ (returned.fn = "get" /\ returned.edges = <<>> /\ returned.value # <<>>) =>
           AsStored(returned.type, heap[returned.value[1]])
\* witness: a get without edges has returned a cached post of which an earlier
\* call with edge selectors returned a hydrated object
C33_Witness ==
    /\ returned.fn = "get" /\ returned.edges = <<>> /\ returned.value # <<>>
    /\ LoopIdle
    /\ \E r \in DOMAIN heap :
           /\ heap[r].id = heap[returned.value[1]].id
           /\ Hydrated(heap[r])
           /\ r < held[returned.type][returned.id]

\* C34: a query with limit.size = n returns at most n entities, also when a
\* query with the same filter list has completed before on the same cache
C34_LimitHolds ==
    (lastStore.kind = "query" /\ lastStore.error = "" /\ lastStore.query.limit > 0) =>
        Len(lastStore.result) <= lastStore.query.limit

\* the gets that called activation a, nearest first
RECURSIVE CallingGets(_)
CallingGets(a) ==
    IF acts[a].parent = 0 THEN <<>>
    ELSE IF acts[acts[a].parent].fn = "get"
    THEN <<acts[a].parent>> \o CallingGets(acts[a].parent)
    ELSE CallingGets(acts[a].parent)
\* activation a is a get that one of its callers is as well, of the same id
\* with the same selectors and the same ids cached: what a does, that
\* caller did, and so a calls get in the same way again
Recurs(a) ==
    /\ acts[a].fn = "get"
    /\ \E n \in DOMAIN CallingGets(a) :
          LET b == acts[CallingGets(a)[n]]
          IN  /\ b.type = acts[a].type /\ b.id = acts[a].id
              /\ b.edges = acts[a].edges /\ b.cached = acts[a].cached

\* C35: get and query with edge selectors terminate, also with a bare token
\* on references that form a cycle: no get is called from within the same
\* get in the same state of the cache
C35_WalkTerminates == \A a \in DOMAIN acts : ~Recurs(a)

\* how often the listener of registration u was invoked by the last call
InvokedTimes(u) ==
    Cardinality({i \in DOMAIN lastCall.calls :
                    lastCall.calls[i].listenerKey = unlisteners[u].listenerKey})

\* C36: a provideValue(key, v) on scope S invokes each listener that is
\* registered for key on S exactly once and no listener of another key or
\* scope, and no other call invokes a listener
C36_OncePerProvideValue ==
    /\ lastCall.op = "provideValue" =>
           \A u \in DOMAIN unlisteners :
               InvokedTimes(u) =
                   IF u \in ActiveRegistrations(lastCall.scope, lastCall.key)
                   THEN 1 ELSE 0
    /\ lastCall.op # "provideValue" => lastCall.calls = <<>>

\* how often callback is in the list
Occurrences(list, callback) == Cardinality({i \in DOMAIN list : list[i] = callback})

RECURSIVE Subscribed(_, _, _)
Subscribed(key, callback, n) ==
    IF n = 0 THEN 0
    ELSE Subscribed(key, callback, n - 1) +
         (IF cacheUnlisteners[n].calls = 0 /\ cacheUnlisteners[n].callback = callback
          THEN Occurrences(cacheUnlisteners[n].ids, key) ELSE 0)

\* C39: every call of an unsubscribe function completes without an error,
\* and a callback is in the list of an id once for each of its registrations
\* under the id whose own unsubscribe function has not been called
C39_RegistrationsIndependent ==
    /\ lastDone.kind = "unlisten" => lastDone.error = ""
    /\ \A key \in CacheIds \cup {Wildcard}, callback \in Fns :
          Occurrences(ListenersOf(cacheListeners, key), callback) =
              Subscribed(key, callback, Len(cacheUnlisteners))

\* C38: a call of an unsubscribe function that has run before changes
\* nothing: the key keeps its listener Map and the Map its entries, so the
\* listeners registered since are invoked by the next provideValue
C38_SecondCallIsNoOp ==
    [][(lastCall'.op = "unlisten" /\ unsubscribed' = unsubscribed) =>
          (listeners' = listeners /\ listenerMaps' = listenerMaps)]_vars

====
